---- MODULE Spec2Model ----
(***************************************************************************)
(* Obidome: a taskbar-embedded system monitor.                             *)
(*                                                                         *)
(* The model covers the lazily evaluated metric fetcher                    *)
(* (src/src/obidome/values.py) and the timer-driven update loop of the     *)
(* widget (src/src/obidome/monitor.py) with the functions it places itself *)
(* with, and the sparkline generator (src/src/obidome/plot.py).  The       *)
(* operating system (psutil, the                                           *)
(* wall clock, the shell windows, the output of custom commands) is the    *)
(* environment: its values change between any two steps of the program.    *)
(***************************************************************************)
EXTENDS Integers, Sequences, FiniteSets, TLC

VARIABLES
    os,          \* environment: what psutil and time() report when asked now
    fetcher,     \* LazySystemValueFetcher: _cache, the *_last baselines, the
                 \* sparkline generators (plots), is_admin
    hwnd_taskbar,\* TaskbarMonitor._hwnd_taskbar (0 = not found)
    timer,       \* TaskbarMonitor._timer is running
    label,       \* what TaskbarMonitor._info_label shows
    template,    \* TaskbarMonitor._info_label_template: the placeholders, in order
    pc,          \* where the event loop is: "idle", or inside update_loop ("format")
    cycle,       \* history since the last clear_cache(): the queries executed (q), the
                 \* first value each key returned (seen), what the OS reported when
                 \* each family was first read (snap), and what the base
                 \* metrics returned in the cycle before (old)
    tick,        \* history: what the current / last update_loop invocation did
    lastRead,    \* history: the last fetcher[key] lookup
    plotter,     \* a SparklineGenerator on its own (g), the values it was updated
                 \* with (log), what the last update returned (ret), its max_len (cap)
    probe,       \* a call of one of the module-level functions: its arguments and
                 \* what it returned
    shell,       \* environment: the handle of Shell_TrayWnd (taskbar, 0 = there is
                 \* none), its rectangle (tb), its tray window (tray), the display
                 \* scale (dpr)
    shot,        \* the delay of the pending QTimer.singleShot(.., start_monitor),
                 \* 0 = none pending
    win,         \* the overlay window: the geometry move() and resize() gave it
                 \* (geo, <<>> = never placed), and whether it is the topmost (top)
    ui,          \* TaskbarMonitor._should_stay; the context menu ("none", "open",
                 \* "hidden": closed, its exec() not yet returned); the settings
                 \* dialog is open
    conf         \* TaskbarMonitor._margin_right, _refresh_interval_msec, and of
                 \* _timer its interval (0 = no timer yet) and whether its
                 \* timeout is pending, the event loop being busy (due)

vars == <<os, fetcher, hwnd_taskbar, timer, label, template, pc, cycle, tick, lastRead,
          plotter, probe, shell, shot, win, ui, conf>>
\* The objects exercised on their own, outside the widget.
bench == <<plotter, probe>>

(***************************************************************************)
(* Bounds of the model.                                                    *)
(***************************************************************************)
MaxCounter == 1      \* OS counters and gauges range over 0..MaxCounter
MaxTime == 2         \* the clock ranges over 0..MaxTime
MaxReads == 2        \* placeholders substituted in one update_loop
MaxLen == 2          \* a sparkline's max_len ranges over 1..MaxLen

(***************************************************************************)
(* Values a lookup can produce.  A number is n / (d * 1024^u): Python's    *)
(* true division is kept exact, and unit conversions are recorded in u.    *)
(* Strings are sequences of characters.                                    *)
(***************************************************************************)
Val(t, n, d, u, s) == [t |-> t, n |-> n, d |-> d, u |-> u, s |-> s]
Num(n, d, u) == Val("num", n, d, u, <<>>)
IntV(n) == Num(n, 1, 0)
StrV(s) == Val("str", 0, 1, 0, s)
NaN == Val("nan", 0, 1, 0, <<>>)
Obj == Val("obj", 0, 1, 0, <<>>)
None == Val("none", 0, 1, 0, <<>>)
Raise(name) == Val("raise", 0, 1, 0, <<name>>)
NA == <<"N", "/", "A">>

IsNum(x) == x.t = "num"
IsRaise(x) == x.t = "raise"

\* Python's == on two numbers (|n| and d stay far below 1024 in the model).
NumEq(a, b) ==
    /\ IsNum(a) /\ IsNum(b)
    /\ \/ a.n = 0 /\ b.n = 0
       \/ a.u = b.u /\ a.n * b.d = b.n * a.d

\* x / 1024^k; an exception raised while evaluating x propagates.
Div1024(x, k) == IF IsNum(x) THEN [x EXCEPT !.u = @ + k] ELSE x

\* str.strip(): leading and trailing whitespace removed.
White == {" ", "\n"}
RECURSIVE LStrip(_)
LStrip(s) == IF s # <<>> /\ Head(s) \in White THEN LStrip(Tail(s)) ELSE s
RECURSIVE RStrip(_)
RStrip(s) ==
    IF s # <<>> /\ s[Len(s)] \in White THEN RStrip(SubSeq(s, 1, Len(s) - 1)) ELSE s
Strip(s) == RStrip(LStrip(s))

\* f with key k bound to v (dict assignment / setattr).
Put(f, k, v) == [x \in DOMAIN f \cup {k} |-> IF x = k THEN v ELSE f[x]]
Empty == [x \in {} |-> 0]
Inc(f, k) == [f EXCEPT ![k] = @ + 1]

(***************************************************************************)
(* SparklineGenerator (plot.py).  Samples are integers; a coordinate is a  *)
(* fraction <<numerator, denominator>> with a positive denominator.        *)
(***************************************************************************)
\* An optional number: min_val / max_val are None until given or computed.
Some(v) == [some |-> TRUE, v |-> v]
Unset == [some |-> FALSE, v |-> 0]
Range(s) == { s[i] : i \in DOMAIN s }
Min(S) == CHOOSE x \in S : \A y \in S : x <= y
Max(S) == CHOOSE x \in S : \A y \in S : x >= y

\* The defaults of SparklineGenerator.__init__.
PlotWidth == 50
PlotHeight == 30

\* SparklineGenerator.__init__
SparklineGenerator(width, height, max_len, min_val, max_val) ==
    [width |-> width, height |-> height,
     min_val |-> min_val, auto_min_val |-> ~min_val.some,
     max_val |-> max_val, auto_max_val |-> ~max_val.some,
     history |-> [i \in 1..max_len |-> 0]]

Push_Unbounded(history, v) == Append(history, v)
\* deque(maxlen=max_len).append(v): a full deque drops its oldest element.
Push(history, v) == IF history = <<>> THEN <<>> ELSE Append(Tail(history), v)

Rescale_Forgetful(g, h) ==
    [g EXCEPT !.min_val = IF g.auto_min_val THEN Some(Min(Range(h))) ELSE @,
              !.max_val = IF g.auto_max_val THEN Some(Max(Range(h))) ELSE @]
\* The bounds after an update that left history h (h is not empty).
Rescale(g, h) ==
    [g EXCEPT
       !.min_val = IF g.auto_min_val
                   THEN Some(Min(Range(h) \cup (IF @.some THEN {@.v} ELSE {})))
                   ELSE @,
       !.max_val = IF g.auto_max_val
                   THEN Some(Max(Range(h) \cup (IF @.some THEN {@.v} ELSE {})))
                   ELSE @]

\* max(0.0, min(1.0, (val - min_val) / (max_val - min_val))), max_val # min_val
Ratio(val, mn, mx) ==
    LET num == IF mx > mn THEN val - mn ELSE mn - val
        den == IF mx > mn THEN mx - mn ELSE mn - mx
    IN  IF num <= 0 THEN <<0, 1>> ELSE IF num >= den THEN <<1, 1>> ELSE <<num, den>>

\* The points of the polyline drawn for g (its bounds set and different).
Points(g) ==
    LET n == Len(g.history)
    IN  [i \in 1..n |->
            LET r == Ratio(g.history[i], g.min_val.v, g.max_val.v)
            IN  [x |-> IF n > 1 THEN <<(i - 1) * g.width, n - 1>> ELSE <<0, 1>>,
                 y |-> <<g.height * (r[2] - r[1]), r[2]>>]]

DataUri == StrV(<<"data:image/png;base64,">>)

\* SparklineGenerator.update_and_get_b64: the generator afterwards (g) and what
\* the call returns or raises (val).
update_and_get_b64(g, new_value) ==
    LET h == Push(g.history, new_value)
    IN  IF h = <<>> /\ (g.auto_min_val \/ g.auto_max_val)
        THEN [g |-> [g EXCEPT !.history = h], val |-> Raise("ValueError")]
        ELSE
        LET g1 == IF h = <<>> THEN [g EXCEPT !.history = h]
                  ELSE [Rescale(g, h) EXCEPT !.history = h]
        IN  IF ~g1.min_val.some \/ ~g1.max_val.some
            THEN [g |-> g1, val |-> Raise("ValueError")]
            ELSE IF h # <<>> /\ g1.max_val.v = g1.min_val.v
            THEN [g |-> g1, val |-> Raise("ZeroDivisionError")]
            ELSE [g |-> g1, val |-> DataUri]

(***************************************************************************)
(* The environment.                                                        *)
(***************************************************************************)
Gauge == 0..MaxCounter
VmValues == [percent : Gauge, total : {MaxCounter + 1}, used : Gauge]
NetValues == [bytes_sent : Gauge, bytes_recv : Gauge]
NoDisk == [ok |-> FALSE, read_bytes |-> 0, write_bytes |-> 0]
DiskValues == {NoDisk} \cup [ok : {TRUE}, read_bytes : Gauge, write_bytes : Gauge]
Proc(name, cpu) == [name |-> name, cpu_percent |-> cpu]
ProcValues ==
    { <<Proc(<<"a">>, x), Proc(<<"b">>, y)>> : x \in {0, MaxCounter}, y \in {0, MaxCounter} }
CmdOutputs == { <<>>, <<"x">>, <<" ", "y", "\n">> }

Families == {"cpu", "vm", "net", "disk", "procs"}
FamilyValues(f) ==
    CASE f = "cpu" -> Gauge
      [] f = "vm" -> VmValues
      [] f = "net" -> NetValues
      [] f = "disk" -> DiskValues
      [] f = "procs" -> ProcValues

(***************************************************************************)
(* LazySystemValueFetcher.                                                 *)
(***************************************************************************)
CpuKey == "psutil.cpu_percent"
VmKey == "psutil.virtual_memory"
NetKey == "psutil.net_io_counters"
DiskKey == "psutil.disk_io_counters"
ProcKey == "psutil.process_iter.cpu_percent"
Queries == {CpuKey, VmKey, NetKey, DiskKey, ProcKey}

custom_keys == {"uptime", "cpu_percent"}

\* An evaluation in progress: the fetcher's state st, and the history q of the
\* OS queries and commands it has executed since the last clear_cache().
\* warn counts the warnings logged.
Ev(st, q, val) == [st |-> st, q |-> q, val |-> val, warn |-> 0]

Ensure_NoMemo(st, q, key, v) ==
    Ev([st EXCEPT !.cache = Put(@, key, v)], Inc(q, key), None)
\* if key not in self._cache: self._cache[key] = <query>()
Ensure(st, q, key, v) ==
    IF key \in DOMAIN st.cache
    THEN Ev(st, q, None)
    ELSE Ev([st EXCEPT !.cache = Put(@, key, v)], Inc(q, key), None)

clear_cache_Keeps(st) == st
\* clear_cache that also forgets the rate baselines.
clear_cache_ForgetsBaselines(st) == [st EXCEPT !.cache = Empty, !.last = Empty]
clear_cache(st) == [st EXCEPT !.cache = Empty]

cpu_percent(st, q, e) ==
    LET a == Ensure(st, q, CpuKey, e.os.cpu)
    IN  Ev(a.st, a.q, IntV(a.st.cache[CpuKey]))

VmField(st, q, e, field) ==
    LET a == Ensure(st, q, VmKey, e.os.vm)
    IN  Ev(a.st, a.q, IntV(a.st.cache[VmKey][field]))

VmUnit(st, q, e, field, k) ==
    LET a == VmField(st, q, e, field)
    IN  Ev(a.st, a.q, Div1024(a.val, k))

NetField(st, q, e, field) ==
    LET a == Ensure(st, q, NetKey, e.os.net)
    IN  Ev(a.st, a.q, IntV(a.st.cache[NetKey][field]))

NetUnit_Uncached(st, q, e, field, k) ==
    Ev(Ensure(st, q, NetKey, e.os.net).st, Ensure(st, q, NetKey, e.os.net).q,
       Div1024(IntV(e.os.net[field]), k))
\* network_kb_sent, network_mb_sent, network_kb_recv, network_mb_recv, network_gb_recv
NetUnit(st, q, e, field, k) ==
    LET a == NetField(st, q, e, field)
    IN  Ev(a.st, a.q, Div1024(a.val, k))

NetRate_KeepsBaseline(st, q, e, attr, field, t) ==
    LET a == Ensure(st, q, NetKey, e.os.net)
        c == a.st.cache[NetKey][field]
    IN  IF attr \notin DOMAIN a.st.last
        THEN Ev([a.st EXCEPT !.last = Put(@, attr, <<t, c>>)], a.q, IntV(0))
        ELSE IF t = a.st.last[attr][1]
        THEN Ev(a.st, a.q, Raise("ZeroDivisionError"))
        ELSE Ev(a.st, a.q, Num(c - a.st.last[attr][2], t - a.st.last[attr][1], 0))
\* network_bytes_sent_per_sec / network_bytes_recv_per_sec, time() returning t.
NetRate(st, q, e, attr, field, t) ==
    LET a == Ensure(st, q, NetKey, e.os.net)
        c == a.st.cache[NetKey][field]
    IN  IF attr \notin DOMAIN a.st.last
        THEN Ev([a.st EXCEPT !.last = Put(@, attr, <<t, c>>)], a.q, IntV(0))
        ELSE IF t = a.st.last[attr][1]
        THEN Ev(a.st, a.q, Raise("ZeroDivisionError"))
        ELSE Ev([a.st EXCEPT !.last = Put(@, attr, <<t, c>>)], a.q,
                Num(c - a.st.last[attr][2], t - a.st.last[attr][1], 0))

NetRateUnit(st, q, e, attr, field, k) ==
    LET a == NetRate(st, q, e, attr, field, e.t)
    IN  Ev(a.st, a.q, Div1024(a.val, k))

\* disk_io_read_bytes / disk_io_write_bytes
DiskField(st, q, e, field) ==
    LET a == Ensure(st, q, DiskKey, e.os.disk)
    IN  IF ~a.st.cache[DiskKey].ok
        THEN Ev(a.st, a.q, IntV(-1))
        ELSE Ev(a.st, a.q, IntV(a.st.cache[DiskKey][field]))

\* disk_io_*_kb / _mb / _gb
DiskUnit(st, q, e, field, k) ==
    LET a == DiskField(st, q, e, field)
    IN  IF NumEq(a.val, IntV(-1))
        THEN Ev(a.st, a.q, IntV(-1))
        ELSE Ev(a.st, a.q, Div1024(a.val, k))

\* disk_io_read_bytes_per_sec / disk_io_write_bytes_per_sec, time() returning t.
DiskRate(st, q, e, rkey, attr, field, t) ==
    IF rkey \in DOMAIN st.cache
    THEN Ev(st, q, st.cache[rkey])
    ELSE
    LET a == DiskField(st, q, e, field)
    IN  IF NumEq(a.val, IntV(-1))
        THEN Ev(a.st, a.q, IntV(-1))
        ELSE IF attr \notin DOMAIN a.st.last
        THEN Ev([a.st EXCEPT !.last = Put(@, attr, <<t, a.st.cache[DiskKey][field]>>)],
                a.q, IntV(0))
        ELSE IF t = a.st.last[attr][1]
        THEN Ev(a.st, a.q, Raise("ZeroDivisionError"))
        ELSE
        LET bps == Num(a.val.n - a.st.last[attr][2], t - a.st.last[attr][1], 0)
        IN  Ev([a.st EXCEPT !.last = Put(@, attr, <<t, a.st.cache[DiskKey][field]>>),
                            !.cache = Put(@, rkey, bps)],
               a.q, bps)

\* disk_io_*_kb_per_sec / _mb_per_sec / _gb_per_sec: the base rate is evaluated
\* for v and, unless v is the sentinel, a second time for the quotient; time()
\* returns e.t in the first evaluation and e.t2 in the second.
DiskRateUnit(st, q, e, rkey, attr, field, k) ==
    LET v == DiskRate(st, q, e, rkey, attr, field, e.t)
    IN  IF IsRaise(v.val) THEN v
        ELSE IF NumEq(v.val, IntV(-1)) THEN Ev(v.st, v.q, IntV(-1))
        ELSE LET b == DiskRate(v.st, v.q, e, rkey, attr, field, e.t2)
             IN  Ev(b.st, b.q, Div1024(b.val, k))

\* sorted(psutil.process_iter(...), key=cpu_percent, reverse=True): a stable
\* sort, so among equal keys the first listed process stays first.
RECURSIVE InsertDesc(_, _)
InsertDesc(p, s) ==
    IF s = <<>> THEN <<p>>
    ELSE IF Head(s).cpu_percent >= p.cpu_percent
    THEN <<Head(s)>> \o InsertDesc(p, Tail(s))
    ELSE <<p>> \o s
RECURSIVE SortedDesc(_)
SortedDesc(s) ==
    IF s = <<>> THEN <<>>
    ELSE InsertDesc(s[Len(s)], SortedDesc(SubSeq(s, 1, Len(s) - 1)))

cpu_demanding_process_Unchecked(st, q, e) ==
    LET a == Ensure(st, q, ProcKey, SortedDesc(e.os.procs))
    IN  Ev(a.st, a.q, StrV(a.st.cache[ProcKey][1].name))
cpu_demanding_process(st, q, e) ==
    IF ~st.is_admin THEN Ev(st, q, StrV(NA))
    ELSE LET a == Ensure(st, q, ProcKey, SortedDesc(e.os.procs))
         IN  Ev(a.st, a.q, StrV(a.st.cache[ProcKey][1].name))

cpu_demanding_process_cpu_percent(st, q, e) ==
    IF ~st.is_admin THEN Ev(st, q, NaN)
    ELSE LET a == Ensure(st, q, ProcKey, SortedDesc(e.os.procs))
         IN  Ev(a.st, a.q, IntV(a.st.cache[ProcKey][1].cpu_percent))

\* The plot property leaving the history alone when the sample repeats the
\* newest one.
Plot_SkipsRepeat(a, attr) ==
    LET g == IF attr \in DOMAIN a.st.plots THEN a.st.plots[attr]
             ELSE SparklineGenerator(PlotWidth, PlotHeight, MaxLen, Some(0), Some(100))
        r == IF g.history[Len(g.history)] = a.val.n THEN [g |-> g, val |-> DataUri]
             ELSE update_and_get_b64(g, a.val.n)
    IN  Ev([a.st EXCEPT !.plots = Put(@, attr, r.g)], a.q, r.val)
\* cpu_percent_plot / ram_percent_plot: a is the evaluation of the metric
\* plotted, attr the attribute that holds the generator.  The generator is
\* made on first use with the default width, height and max_len (30 in
\* plot.py, MaxLen here) and the bounds 0 and 100.
Plot(a, attr) ==
    LET g == IF attr \in DOMAIN a.st.plots THEN a.st.plots[attr]
             ELSE SparklineGenerator(PlotWidth, PlotHeight, MaxLen, Some(0), Some(100))
        r == update_and_get_b64(g, a.val.n)
    IN  Ev([a.st EXCEPT !.plots = Put(@, attr, r.g)], a.q, r.val)

\* load_settings without the two del statements.
load_settings_Keeps(st) == st
\* LazySystemValueFetcher.load_settings: the generators are deleted.
load_settings(st) == [st EXCEPT !.plots = Empty]

\* The named properties of the class: which computation each one is.
D(kind, field, k, attr, rkey) ==
    [kind |-> kind, field |-> field, k |-> k, attr |-> attr, rkey |-> rkey]
NetSentLast == "_network_bytes_sent_last"
NetRecvLast == "_network_bytes_recv_last"
DiskReadLast == "_disk_io_read_bytes_last"
DiskWriteLast == "_disk_io_write_bytes_last"
DiskReadRateKey == "psutil.disk_io_read_bytes_per_sec"
DiskWriteRateKey == "psutil.disk_io_write_bytes_per_sec"
CpuPlotter == "_cpu_percent_plotter"
RamPlotter == "_ram_percent_plotter"
Catalog ==
    ("cpu_percent" :> D("cpu_percent", "", 0, "", "")) @@
    ("cpu_percent_plot" :> D("CpuPlot", "", 0, CpuPlotter, "")) @@
    ("ram_percent_plot" :> D("VmPlot", "percent", 0, RamPlotter, "")) @@
    ("ram_percent" :> D("VmField", "percent", 0, "", "")) @@
    ("ram_total" :> D("VmField", "total", 0, "", "")) @@
    ("ram_total_mb" :> D("VmUnit", "total", 2, "", "")) @@
    ("ram_total_gb" :> D("VmUnit", "total", 3, "", "")) @@
    ("ram_used" :> D("VmField", "used", 0, "", "")) @@
    ("ram_used_mb" :> D("VmUnit", "used", 2, "", "")) @@
    ("ram_used_gb" :> D("VmUnit", "used", 3, "", "")) @@
    ("cpu_demanding_process" :> D("cpu_demanding_process", "", 0, "", "")) @@
    ("cpu_demanding_process_cpu_percent" :>
        D("cpu_demanding_process_cpu_percent", "", 0, "", "")) @@
    ("network_bytes_sent" :> D("NetField", "bytes_sent", 0, "", "")) @@
    ("network_kb_sent" :> D("NetUnit", "bytes_sent", 1, "", "")) @@
    ("network_mb_sent" :> D("NetUnit", "bytes_sent", 2, "", "")) @@
    ("network_bytes_sent_per_sec" :> D("NetRate", "bytes_sent", 0, NetSentLast, "")) @@
    ("network_kb_sent_per_sec" :> D("NetRateUnit", "bytes_sent", 1, NetSentLast, "")) @@
    ("network_mb_sent_per_sec" :> D("NetRateUnit", "bytes_sent", 2, NetSentLast, "")) @@
    ("network_bytes_recv" :> D("NetField", "bytes_recv", 0, "", "")) @@
    ("network_kb_recv" :> D("NetUnit", "bytes_recv", 1, "", "")) @@
    ("network_mb_recv" :> D("NetUnit", "bytes_recv", 2, "", "")) @@
    ("network_gb_recv" :> D("NetUnit", "bytes_recv", 3, "", "")) @@
    ("network_bytes_recv_per_sec" :> D("NetRate", "bytes_recv", 0, NetRecvLast, "")) @@
    ("network_kb_recv_per_sec" :> D("NetRateUnit", "bytes_recv", 1, NetRecvLast, "")) @@
    ("network_mb_recv_per_sec" :> D("NetRateUnit", "bytes_recv", 2, NetRecvLast, "")) @@
    ("network_gb_recv_per_sec" :> D("NetRateUnit", "bytes_recv", 3, NetRecvLast, "")) @@
    ("disk_io_read_bytes" :> D("DiskField", "read_bytes", 0, "", "")) @@
    ("disk_io_read_kb" :> D("DiskUnit", "read_bytes", 1, "", "")) @@
    ("disk_io_read_mb" :> D("DiskUnit", "read_bytes", 2, "", "")) @@
    ("disk_io_read_gb" :> D("DiskUnit", "read_bytes", 3, "", "")) @@
    ("disk_io_read_bytes_per_sec" :>
        D("DiskRate", "read_bytes", 0, DiskReadLast, DiskReadRateKey)) @@
    ("disk_io_read_kb_per_sec" :>
        D("DiskRateUnit", "read_bytes", 1, DiskReadLast, DiskReadRateKey)) @@
    ("disk_io_read_mb_per_sec" :>
        D("DiskRateUnit", "read_bytes", 2, DiskReadLast, DiskReadRateKey)) @@
    ("disk_io_read_gb_per_sec" :>
        D("DiskRateUnit", "read_bytes", 3, DiskReadLast, DiskReadRateKey)) @@
    ("disk_io_write_bytes" :> D("DiskField", "write_bytes", 0, "", "")) @@
    ("disk_io_write_kb" :> D("DiskUnit", "write_bytes", 1, "", "")) @@
    ("disk_io_write_mb" :> D("DiskUnit", "write_bytes", 2, "", "")) @@
    ("disk_io_write_gb" :> D("DiskUnit", "write_bytes", 3, "", "")) @@
    ("disk_io_write_bytes_per_sec" :>
        D("DiskRate", "write_bytes", 0, DiskWriteLast, DiskWriteRateKey)) @@
    ("disk_io_write_kb_per_sec" :>
        D("DiskRateUnit", "write_bytes", 1, DiskWriteLast, DiskWriteRateKey)) @@
    ("disk_io_write_mb_per_sec" :>
        D("DiskRateUnit", "write_bytes", 2, DiskWriteLast, DiskWriteRateKey)) @@
    ("disk_io_write_gb_per_sec" :>
        D("DiskRateUnit", "write_bytes", 3, DiskWriteLast, DiskWriteRateKey))

\* Evaluating the property named key.
Property(key, st, q, e) ==
    LET c == Catalog[key]
    IN  CASE c.kind = "cpu_percent" -> cpu_percent(st, q, e)
          [] c.kind = "CpuPlot" -> Plot(cpu_percent(st, q, e), c.attr)
          [] c.kind = "VmPlot" -> Plot(VmField(st, q, e, c.field), c.attr)
          [] c.kind = "VmField" -> VmField(st, q, e, c.field)
          [] c.kind = "VmUnit" -> VmUnit(st, q, e, c.field, c.k)
          [] c.kind = "cpu_demanding_process" -> cpu_demanding_process(st, q, e)
          [] c.kind = "cpu_demanding_process_cpu_percent" ->
                cpu_demanding_process_cpu_percent(st, q, e)
          [] c.kind = "NetField" -> NetField(st, q, e, c.field)
          [] c.kind = "NetUnit" -> NetUnit(st, q, e, c.field, c.k)
          [] c.kind = "NetRate" -> NetRate(st, q, e, c.attr, c.field, e.t)
          [] c.kind = "NetRateUnit" -> NetRateUnit(st, q, e, c.attr, c.field, c.k)
          [] c.kind = "DiskField" -> DiskField(st, q, e, c.field)
          [] c.kind = "DiskUnit" -> DiskUnit(st, q, e, c.field, c.k)
          [] c.kind = "DiskRate" -> DiskRate(st, q, e, c.rkey, c.attr, c.field, e.t)
          [] c.kind = "DiskRateUnit" ->
                DiskRateUnit(st, q, e, c.rkey, c.attr, c.field, c.k)

\* Names the fetcher object answers to besides its properties: its methods,
\* its instance attributes and what it inherits from dict.
ObjectAttrs == {"clear_cache", "load_settings", "logger", "is_admin", "_cache", "keys"}

\* getattr(self, key, None)
GetAttr(key, st, q, e) ==
    IF key \in DOMAIN Catalog THEN Property(key, st, q, e)
    ELSE IF key \in ObjectAttrs \/ key \in DOMAIN st.last \/ key \in DOMAIN st.plots
    THEN Ev(st, q, Obj)
    ELSE Ev(st, q, None)

\* __getitem__ testing the attribute for truth instead of for None.
GetItem_Truthy(key, st, q, e) ==
    LET a == GetAttr(key, st, q, e)
    IN  IF a.val # None /\ ~(IsNum(a.val) /\ a.val.n = 0) THEN a
        ELSE IF key \in custom_keys
        THEN Ev(a.st, Inc(a.q, key), StrV(Strip(e.out)))
        ELSE [Ev(a.st, a.q, StrV(NA)) EXCEPT !.warn = 1]
\* LazySystemValueFetcher.__getitem__
GetItem(key, st, q, e) ==
    LET a == GetAttr(key, st, q, e)
    IN  IF a.val # None THEN a
        ELSE IF key \in custom_keys
        THEN Ev(a.st, Inc(a.q, key), StrV(Strip(e.out)))
        ELSE [Ev(a.st, a.q, StrV(NA)) EXCEPT !.warn = 1]

(***************************************************************************)
(* The shell windows and the geometry of the overlay (monitor.py).         *)
(* Python floats are fractions <<numerator, denominator>>, denominator > 0.*)
(***************************************************************************)
FInt(n) == <<n, 1>>
FAdd(a, b) == <<a[1] * b[2] + b[1] * a[2], a[2] * b[2]>>
FSub(a, b) == <<a[1] * b[2] - b[1] * a[2], a[2] * b[2]>>
FMul(a, b) == <<a[1] * b[1], a[2] * b[2]>>
\* a / b, b > 0
FDiv(a, b) == <<a[1] * b[2], a[2] * b[1]>>
IsInt(a) == a[1] % a[2] = 0
\* int(x): truncation towards zero
FTrunc(a) == IF a[1] >= 0 THEN a[1] \div a[2] ELSE -((-a[1]) \div a[2])
\* x has a finite binary expansion, so the float holding it is exact.
Dyadic(a) == \E k \in 0..12 : (a[1] * 2^k) % a[2] = 0
\* int(x) of a float x computed with rounding errors from the exact value a: the
\* error cannot carry x past an integer unless a is one, and then x may lie on
\* either side of it.
FTruncRounded(a) ==
    IF IsInt(a) /\ a[1] # 0
    THEN {FTrunc(a), FTrunc(a) - (IF a[1] > 0 THEN 1 ELSE -1)}
    ELSE {FTrunc(a)}

\* user32.GetSystemMetrics(SM_CXSCREEN / SM_CYSCREEN)
ScreenW == 1920
ScreenH == 1080
ExcludedClasses == {"WorkerW", "Progman", "Shell_TrayWnd", "DV2ControlHost"}

is_fullscreen_app_active_AnyClass(d) ==
    IF ~d.visible THEN TRUE
    ELSE IF d.fg = 0 THEN FALSE
    ELSE d.w >= ScreenW /\ d.h >= ScreenH
\* is_fullscreen_app_active: d is what the window manager answers (whether the
\* taskbar is visible, the foreground window, its class and the width and
\* height of its rectangle).
is_fullscreen_app_active(d) ==
    IF ~d.visible THEN TRUE
    ELSE IF d.fg = 0 THEN FALSE
    ELSE IF d.cls \in ExcludedClasses THEN FALSE
    ELSE d.w >= ScreenW /\ d.h >= ScreenH

\* get_tray_notify_width_physical (monitor.py): tr is what FindWindowExW and
\* GetWindowRect answer for TrayNotifyWnd.
get_tray_notify_width_physical(tr) ==
    IF ~tr.found THEN 150
    ELSE IF tr.ok THEN (tr.left + tr.width) - tr.left
    ELSE 150

\* get_tray_notify_width of the prototype (src/main.py)
get_tray_notify_width(tr) ==
    IF ~tr.found THEN 150
    ELSE IF tr.ok /\ 0 < (tr.left + tr.width) - tr.left /\ (tr.left + tr.width) - tr.left < 3000
    THEN (tr.left + tr.width) - tr.left
    ELSE 150

snap_position_Floored(hwnd, tb, tr, my_log_w, margin_right, dpr) ==
    IF hwnd = 0 THEN {}
    ELSE
    LET tray_phys_w == get_tray_notify_width_physical(tr)
        my_log_h == FSub(FDiv(FInt(tb.bottom - tb.top), dpr), FInt(4))
        target_phys_x ==
            FSub(FSub(FInt(tb.right - tray_phys_w), FMul(FInt(my_log_w), dpr)),
                 FMul(FInt(margin_right), dpr))
        target_phys_y ==
            FAdd(FInt(tb.top),
                 FDiv(FSub(FInt(tb.bottom - tb.top), FMul(my_log_h, dpr)), FInt(2)))
        fx == FDiv(target_phys_x, dpr)
        fy == FDiv(target_phys_y, dpr)
    IN  { [x |-> fx[1] \div fx[2], y |-> fy[1] \div fy[2], w |-> my_log_w,
           h |-> FTrunc(my_log_h)] }
\* snap_position: the geometries move() and resize() can be given, or none
\* without a taskbar.  tb is the taskbar's rectangle, tr the tray, my_log_w the
\* label's sizeHint().width(), dpr the devicePixelRatio().
snap_position(hwnd, tb, tr, my_log_w, margin_right, dpr) ==
    IF hwnd = 0 THEN {}
    ELSE
    LET tb_phys_x == tb.left
        tb_phys_y == tb.top
        tb_phys_w == tb.right - tb.left
        tb_phys_h == tb.bottom - tb.top
        tray_phys_w == get_tray_notify_width_physical(tr)
        my_log_h == FSub(FDiv(FInt(tb_phys_h), dpr), FInt(4))
        target_phys_x ==
            FSub(FSub(FInt(tb_phys_x + tb_phys_w - tray_phys_w), FMul(FInt(my_log_w), dpr)),
                 FMul(FInt(margin_right), dpr))
        target_phys_y ==
            FAdd(FInt(tb_phys_y),
                 FDiv(FSub(FInt(tb_phys_h), FMul(my_log_h, dpr)), FInt(2)))
        xs == {FTrunc(FDiv(target_phys_x, dpr))}
        ys == IF Dyadic(my_log_h) THEN {FTrunc(FDiv(target_phys_y, dpr))}
              ELSE FTruncRounded(FDiv(target_phys_y, dpr))
    IN  { [x |-> x, y |-> y, w |-> my_log_w, h |-> FTrunc(my_log_h)] : x \in xs, y \in ys }

\* What the shell can answer.
Classes == ExcludedClasses \cup {"Chrome_WidgetWin_1"}
Desks ==
    [visible : BOOLEAN, fg : {0, 7}, cls : Classes,
     w : {ScreenW - 1, ScreenW, ScreenW + 1}, h : {ScreenH - 1, ScreenH, ScreenH + 1}]
Trays ==
    [found : BOOLEAN, ok : BOOLEAN, left : {0, 1600},
     width : {-1, 0, 1, 160, 2999, 3000, 3001}]
\* devicePixelRatio(): the display scale, in steps of 25%.
Scales == {<<1, 1>>, <<5, 4>>, <<3, 2>>, <<7, 4>>, <<2, 1>>}
Rect(left, top, w, h) == [left |-> left, top |-> top, right |-> left + w, bottom |-> top + h]

(***************************************************************************)
(* TaskbarMonitor: the widget and its update loop.                         *)
(***************************************************************************)
TaskbarHwnd == 1
\* The delays of the single shots that call start_monitor.
StartDelay == 100
RetryDelay == 1000
NoQueries == [k \in Queries \cup custom_keys |-> 0]
\* The metrics that report one field of one OS query as it is.
BaseKeys ==
    {"cpu_percent", "ram_percent", "ram_total", "ram_used", "network_bytes_sent",
     "network_bytes_recv", "disk_io_read_bytes", "disk_io_write_bytes"}
NoCycle == [q |-> NoQueries, seen |-> Empty, snap |-> Empty, old |-> Empty]
NewCycle(c) ==
    [q |-> NoQueries, seen |-> Empty, snap |-> Empty,
     old |-> [k \in DOMAIN c.seen \cap BaseKeys |-> c.seen[k]]]
NoTick == [full |-> FALSE, clears |-> 0, reads |-> 0, early |-> 0, snapped |-> FALSE]

\* The templates of at most MaxReads placeholders over the names K.
Templates(K) == UNION { [1..n -> K] : n \in 1..MaxReads }

\* TaskbarMonitor.__init__ with a template of T as settings.info_label.
Construct(T) ==
    /\ template \in T
    /\ os = [cpu |-> 0,
             vm |-> [percent |-> 0, total |-> MaxCounter + 1, used |-> 0],
             net |-> [bytes_sent |-> 0, bytes_recv |-> 0],
             disk |-> [ok |-> TRUE, read_bytes |-> 0, write_bytes |-> 0],
             procs |-> <<Proc(<<"a">>, 0), Proc(<<"b">>, 0)>>,
             time |-> 0]
    /\ \E adm \in BOOLEAN :
          fetcher = [cache |-> Empty, last |-> Empty, plots |-> Empty, is_admin |-> adm]
    /\ hwnd_taskbar = 0
    /\ timer = FALSE
    /\ label = "Loading..."
    /\ pc = "idle"
    /\ cycle = NoCycle
    /\ tick = NoTick
    /\ lastRead = [key |-> "", val |-> None, warn |-> 0, first |-> FALSE, moved |-> FALSE]
    /\ shell = [taskbar |-> 0, tb |-> Rect(0, 1040, 1920, 40),
                tray |-> [found |-> TRUE, ok |-> TRUE, left |-> 1600, width |-> 160],
                dpr |-> <<1, 1>>]
    /\ shot = StartDelay
    /\ win = [geo |-> <<>>, top |-> FALSE]
    /\ ui = [should_stay |-> FALSE, menu |-> "none", dialog |-> FALSE]
    /\ conf = [margin_right |-> 10, refresh_interval_msec |-> 1000, interval |-> 0,
               due |-> FALSE]

\* No generator is exercised on its own, no function probed.
NoPlotter == [g |-> SparklineGenerator(0, 0, 0, Unset, Unset), log |-> <<>>, ret |-> None,
              cap |-> 0]
NoProbe == [fn |-> "none"]

\* Construction of the widget with a template of T as settings.info_label.
InitWith(T) ==
    /\ Construct(T)
    /\ plotter = NoPlotter
    /\ probe = NoProbe

UpdateLoopBegin_ClearsLate(full) ==
    IF full
    THEN /\ label' = ""
         /\ pc' = "idle"
         /\ tick' = [full |-> TRUE, clears |-> 0, reads |-> 0, early |-> 0,
                    snapped |-> FALSE]
         /\ UNCHANGED <<fetcher, cycle>>
    ELSE /\ fetcher' = fetcher
         /\ cycle' = cycle
         /\ pc' = "format"
         /\ tick' = [full |-> FALSE, clears |-> 0, reads |-> 0, early |-> 0,
                    snapped |-> FALSE]
         /\ UNCHANGED label
UpdateLoopBegin_ClearsOnFullscreen(full) ==
    IF full
    THEN /\ label' = ""
         /\ pc' = "idle"
         /\ tick' = [full |-> TRUE, clears |-> 0, reads |-> 0, early |-> 0,
                    snapped |-> FALSE]
         /\ fetcher' = clear_cache(fetcher)
         /\ UNCHANGED cycle
    ELSE /\ fetcher' = clear_cache(fetcher)
         /\ cycle' = NewCycle(cycle)
         /\ pc' = "format"
         /\ tick' = [full |-> FALSE, clears |-> 1, reads |-> 0, early |-> 0,
                    snapped |-> FALSE]
         /\ UNCHANGED label
\* update_loop up to the substitution of the template: full is what
\* is_fullscreen_app_active answers.
UpdateLoopBegin(full) ==
    IF full
    THEN /\ label' = ""
         /\ pc' = "idle"
         /\ tick' = [full |-> TRUE, clears |-> 0, reads |-> 0, early |-> 0,
                    snapped |-> FALSE]
         /\ UNCHANGED <<fetcher, cycle>>
    ELSE /\ fetcher' = clear_cache(fetcher)
         /\ cycle' = NewCycle(cycle)
         /\ pc' = "format"
         /\ tick' = [full |-> FALSE, clears |-> 1, reads |-> 0, early |-> 0,
                    snapped |-> FALSE]
         /\ UNCHANGED label

\* What the shell answers about the foreground window when a tick asks: a
\* window that does not exist is not visible.
Foregrounds ==
    { d \in Desks : /\ d.fg = 7 /\ d.w = ScreenW /\ d.h \in {ScreenH - 1, ScreenH}
                    /\ d.cls \in {"Progman", "Chrome_WidgetWin_1"}
                    /\ (d.visible => shell.taskbar # 0 /\ shell.taskbar = hwnd_taskbar') }

StartMonitor_NoRetry ==
    /\ pc = "idle" /\ shot # 0
    /\ \E found \in {shell.taskbar} :
          /\ hwnd_taskbar' = found
          /\ shot' = 0
          /\ IF found = 0
             THEN UNCHANGED <<timer, fetcher, label, pc, cycle, tick, conf>>
             ELSE /\ timer' = TRUE
                  /\ conf' = [conf EXCEPT !.interval = conf.refresh_interval_msec]
                  /\ \E d \in Foregrounds : UpdateLoopBegin(is_fullscreen_app_active(d))
    /\ UNCHANGED <<os, template, lastRead, shell, win, ui>>
    /\ UNCHANGED bench
StartMonitor_TicksAnyway ==
    /\ pc = "idle" /\ shot # 0
    /\ \E found \in {shell.taskbar} :
          /\ hwnd_taskbar' = found
          /\ shot' = IF found = 0 THEN RetryDelay ELSE 0
          /\ timer' = (found # 0)
          /\ conf' = IF found = 0 THEN conf
                     ELSE [conf EXCEPT !.interval = conf.refresh_interval_msec]
          /\ \E d \in Foregrounds : UpdateLoopBegin(is_fullscreen_app_active(d))
    /\ UNCHANGED <<os, template, lastRead, shell, win, ui>>
    /\ UNCHANGED bench
\* start_monitor, called by the single shot armed at construction or by the
\* one it arms itself while the taskbar is not found; found is what
\* FindWindowW answers.  Once found, it starts the timer and runs the first
\* update_loop itself.
StartMonitor ==
    /\ pc = "idle" /\ shot # 0
    /\ \E found \in {shell.taskbar} :
          /\ hwnd_taskbar' = found
          /\ IF found = 0
             THEN /\ shot' = RetryDelay
                  /\ UNCHANGED <<timer, fetcher, label, pc, cycle, tick, conf>>
             ELSE /\ shot' = 0
                  /\ timer' = TRUE
                  /\ conf' = [conf EXCEPT !.interval = conf.refresh_interval_msec]
                  /\ \E d \in Foregrounds : UpdateLoopBegin(is_fullscreen_app_active(d))
    /\ UNCHANGED <<os, template, lastRead, shell, win, ui>>
    /\ UNCHANGED bench

\* update_loop looking for the taskbar again when its handle is stale.
TimerTick_Redetects ==
    /\ pc = "idle" /\ timer
    /\ hwnd_taskbar' = IF shell.taskbar # 0 THEN shell.taskbar ELSE hwnd_taskbar
    /\ UNCHANGED <<os, template, timer, lastRead>>
    /\ \E d \in Foregrounds : UpdateLoopBegin(is_fullscreen_app_active(d))
    /\ conf' = [conf EXCEPT !.due = FALSE]
    /\ UNCHANGED <<shell, shot, win, ui>>
    /\ UNCHANGED bench
TimerTick_Reentrant ==
    /\ pc \in {"idle", "format"} /\ timer
    /\ UNCHANGED <<os, template, hwnd_taskbar, timer, lastRead>>
    /\ \E d \in Foregrounds : UpdateLoopBegin(is_fullscreen_app_active(d))
    /\ conf' = [conf EXCEPT !.due = FALSE]
    /\ UNCHANGED <<shell, shot, win, ui>>
    /\ UNCHANGED bench
\* The event loop delivers the timeout of the periodic timer: update_loop.
\* Nothing update_loop calls runs an event loop, so the timeout is delivered
\* only between handlers.
TimerTick ==
    /\ pc = "idle" /\ timer
    /\ UNCHANGED <<os, template, hwnd_taskbar, timer, lastRead>>
    /\ \E d \in Foregrounds : UpdateLoopBegin(is_fullscreen_app_active(d))
    /\ conf' = [conf EXCEPT !.due = FALSE]
    /\ UNCHANGED <<shell, shot, win, ui>>
    /\ UNCHANGED bench

\* The OS value a property reads.
FamilyOf(key) ==
    IF key \notin DOMAIN Catalog THEN "none"
    ELSE LET kind == Catalog[key].kind
         IN  CASE kind \in {"cpu_percent", "CpuPlot"} -> "cpu"
               [] kind \in {"VmField", "VmUnit", "VmPlot"} -> "vm"
               [] kind \in {"NetField", "NetUnit", "NetRate", "NetRateUnit"} -> "net"
               [] kind \in {"DiskField", "DiskUnit", "DiskRate", "DiskRateUnit"} -> "disk"
               [] OTHER -> "procs"

\* The properties that call time() twice in one evaluation.
TwoClockKinds == {"DiskRateUnit"}

\* format_map substitutes one placeholder: fetcher[key].  out is what the
\* custom command prints, t2 what a second call of time() returns.
Lookup(key, out, t2) ==
    \E r \in {GetItem(key, fetcher, cycle.q,
                      [os |-> os, t |-> os.time, t2 |-> t2, out |-> out])} :
        /\ fetcher' = r.st
        /\ os' = [os EXCEPT !.time = t2]
        /\ cycle' = [q |-> r.q,
                     seen |-> IF key \in DOMAIN cycle.seen THEN cycle.seen
                              ELSE Put(cycle.seen, key, r.val),
                     snap |-> IF FamilyOf(key) \in Families \ DOMAIN cycle.snap
                              THEN Put(cycle.snap, FamilyOf(key), os[FamilyOf(key)])
                              ELSE cycle.snap,
                     old |-> cycle.old]
        /\ lastRead' = [key |-> key, val |-> r.val, warn |-> r.warn,
                        first |-> key \notin DOMAIN cycle.seen,
                        moved |-> /\ FamilyOf(key) \in DOMAIN cycle.snap
                                  /\ cycle.snap[FamilyOf(key)] # os[FamilyOf(key)]]
        /\ tick' = [tick EXCEPT !.reads = @ + 1,
                                !.early = IF tick.clears = 0 THEN @ + 1 ELSE @]
        /\ pc' = IF IsRaise(r.val) THEN "idle" ELSE "format"

ReadKey ==
    /\ pc = "format" /\ tick.reads < Len(template)
    /\ \E key \in {template[tick.reads + 1]} :
           \E out \in IF key \in custom_keys THEN CmdOutputs ELSE {<<>>} :
           \E t2 \in IF key \in DOMAIN Catalog /\ Catalog[key].kind \in TwoClockKinds
                     THEN {t \in {os.time, os.time + 1} : t <= MaxTime}
                     ELSE {os.time} :
              Lookup(key, out, t2)
    /\ UNCHANGED <<template, hwnd_taskbar, timer, label>>
    /\ UNCHANGED <<shell, shot, win, ui, conf>>
    /\ UNCHANGED bench

\* _info_label.sizeHint().width() for the content shown.
SizeHintWidth(content) ==
    CASE content = "html" -> 100
      [] content = "Loading..." -> 60
      [] OTHER -> 0

\* What snap_position reads of the shell: GetWindowRect leaves the zeroed RECT
\* and FindWindowExW finds nothing when the taskbar window is gone.
TaskbarRect ==
    IF shell.taskbar # 0 /\ shell.taskbar = hwnd_taskbar THEN shell.tb ELSE Rect(0, 0, 0, 0)
TrayOf ==
    IF shell.taskbar # 0 /\ shell.taskbar = hwnd_taskbar THEN shell.tray
    ELSE [found |-> FALSE, ok |-> FALSE, left |-> 0, width |-> 0]

UpdateLoopEnd_Unheld ==
    /\ pc = "format" /\ tick.reads = Len(template)
    /\ label' = "html"
    /\ pc' = "idle"
    /\ \E g \in { <<o>> : o \in snap_position(hwnd_taskbar, TaskbarRect, TrayOf,
                                               SizeHintWidth(label'), conf.margin_right,
                                               shell.dpr) } :
          win' = [geo |-> g, top |-> TRUE]
    /\ tick' = [tick EXCEPT !.snapped = TRUE]
    /\ UNCHANGED <<os, template, fetcher, hwnd_taskbar, timer, cycle, lastRead>>
    /\ UNCHANGED <<shell, shot, ui, conf>>
    /\ UNCHANGED bench
\* update_loop after the substitution: the content is shown and, unless
\* _should_stay is set, the overlay is raised and snapped to the taskbar.
UpdateLoopEnd ==
    /\ pc = "format" /\ tick.reads = Len(template)
    /\ label' = "html"
    /\ pc' = "idle"
    /\ IF ui.should_stay
       THEN UNCHANGED <<win, tick>>
       ELSE /\ \E g \in { <<o>> : o \in snap_position(hwnd_taskbar, TaskbarRect, TrayOf,
                                                       SizeHintWidth(label'),
                                                       conf.margin_right, shell.dpr) } :
                  win' = [geo |-> g, top |-> TRUE]
            /\ tick' = [tick EXCEPT !.snapped = TRUE]
    /\ UNCHANGED <<os, template, fetcher, hwnd_taskbar, timer, cycle, lastRead>>
    /\ UNCHANGED <<shell, shot, ui, conf>>
    /\ UNCHANGED bench

\* What of the environment the template can observe: the OS values its
\* placeholders read, and the clock when one of them is a rate.
ClockKinds == {"NetRate", "NetRateUnit", "DiskRate", "DiskRateUnit"}
Observed ==
    (Families \cap {FamilyOf(template[i]) : i \in DOMAIN template})
    \cup {"time" : i \in {j \in DOMAIN template :
                            /\ template[j] \in DOMAIN Catalog
                            /\ Catalog[template[j]].kind \in ClockKinds}}

\* The operating system moves on and time passes.  Only what the template can
\* observe is followed: the rest never reaches the program.
OsChange ==
    /\ \E f \in Observed :
       \E v \in IF f = "time" THEN {t \in {os.time + 1} : t <= MaxTime}
                ELSE FamilyValues(f) \ {os[f]} :
          os' = [os EXCEPT ![f] = v]
    /\ UNCHANGED <<template, fetcher, hwnd_taskbar, timer, label, pc, cycle, tick, lastRead>>
    /\ UNCHANGED <<shell, shot, win, ui, conf>>
    /\ UNCHANGED bench

\* The shell creates its taskbar window.
TaskbarCreated ==
    /\ shell.taskbar = 0
    /\ shell' = [shell EXCEPT !.taskbar = IF hwnd_taskbar = 0 THEN TaskbarHwnd
                                          ELSE TaskbarHwnd + 1]
    /\ UNCHANGED <<os, template, fetcher, hwnd_taskbar, timer, label, pc, cycle, tick,
                   lastRead, shot, win, ui, conf>>
    /\ UNCHANGED bench

Next ==
    \/ StartMonitor
    \/ TimerTick
    \/ ReadKey
    \/ UpdateLoopEnd
    \/ OsChange
    \/ TaskbarCreated

\* The widget with templates over a gauge, a rate, a custom key and a name
\* that is no metric.
SpecKeys == {"cpu_percent", "network_bytes_sent_per_sec", "uptime", "does_not_exist"}
Init == InitWith(Templates(SpecKeys))
Spec == Init /\ [][Next]_vars

(***************************************************************************)
(* The metric cache.                                                       *)
(***************************************************************************)
\* Templates over the base metrics of one family: the families do not share
\* anything, each has its own cache entry.
CacheTemplates ==
    UNION { Templates({k \in BaseKeys : FamilyOf(k) = f}) : f \in Families \ {"procs"} }
InitCache == InitWith(CacheTemplates)
SpecCache == InitCache /\ [][Next]_vars

\* What the base metric key is in the OS report v of its family.
CurrentValue(key, v) ==
    CASE key = "cpu_percent" -> IntV(v)
      [] key = "ram_percent" -> IntV(v.percent)
      [] key = "ram_total" -> IntV(v.total)
      [] key = "ram_used" -> IntV(v.used)
      [] key = "network_bytes_sent" -> IntV(v.bytes_sent)
      [] key = "network_bytes_recv" -> IntV(v.bytes_recv)
      [] key = "disk_io_read_bytes" -> IF v.ok THEN IntV(v.read_bytes) ELSE IntV(-1)
      [] key = "disk_io_write_bytes" -> IF v.ok THEN IntV(v.write_bytes) ELSE IntV(-1)
CacheKeyOf(f) ==
    CASE f = "cpu" -> CpuKey [] f = "vm" -> VmKey [] f = "net" -> NetKey
      [] f = "disk" -> DiskKey [] f = "procs" -> ProcKey

\* C1: between two clear_cache() calls every read of a base metric returns the
\* value its first read of the cycle returned, whatever the OS reports by then,
\* and the OS query of each family has been executed at most once.
C1_MemoizedWithinCycle ==
    /\ lastRead.key \in BaseKeys \cap DOMAIN cycle.seen
          => lastRead.val = cycle.seen[lastRead.key]
    /\ \A k \in Queries : cycle.q[k] <= 1
\* A second read of a key in one cycle, made after the OS value had changed.
C1_Witness ==
    /\ lastRead.key \in BaseKeys /\ ~lastRead.first /\ lastRead.moved
    /\ lastRead.val = cycle.seen[lastRead.key]

\* C2: after clear_cache() the first read of a metric family executes the OS
\* query again, and every read until the next clear_cache() returns what the
\* OS reported at that first read: nothing cached before the clear is returned.
C2_FreshAfterClear ==
    /\ \A f \in DOMAIN cycle.snap : cycle.q[CacheKeyOf(f)] = 1
    /\ lastRead.key \in BaseKeys \cap DOMAIN cycle.seen
          => lastRead.val = CurrentValue(lastRead.key, cycle.snap[FamilyOf(lastRead.key)])
\* The first read of a later cycle, returning a value that differs from the one
\* the cycle before had cached.
C2_Witness ==
    /\ lastRead.key \in DOMAIN cycle.seen \cap DOMAIN cycle.old /\ lastRead.first
    /\ cycle.q[CacheKeyOf(FamilyOf(lastRead.key))] = 1
    /\ lastRead.val # cycle.old[lastRead.key]

(***************************************************************************)
(* Unit conversions of the byte counts.                                    *)
(***************************************************************************)
\* <<derivative, byte-count metric, power of 1024>>, as the class names them.
Derivatives ==
    { <<"ram_total_mb", "ram_total", 2>>, <<"ram_total_gb", "ram_total", 3>>,
      <<"ram_used_mb", "ram_used", 2>>, <<"ram_used_gb", "ram_used", 3>>,
      <<"network_kb_sent", "network_bytes_sent", 1>>,
      <<"network_mb_sent", "network_bytes_sent", 2>>,
      <<"network_kb_recv", "network_bytes_recv", 1>>,
      <<"network_mb_recv", "network_bytes_recv", 2>>,
      <<"network_gb_recv", "network_bytes_recv", 3>>,
      <<"disk_io_read_kb", "disk_io_read_bytes", 1>>,
      <<"disk_io_read_mb", "disk_io_read_bytes", 2>>,
      <<"disk_io_read_gb", "disk_io_read_bytes", 3>>,
      <<"disk_io_write_kb", "disk_io_write_bytes", 1>>,
      <<"disk_io_write_mb", "disk_io_write_bytes", 2>>,
      <<"disk_io_write_gb", "disk_io_write_bytes", 3>> }
ByteKeys == { d[2] : d \in Derivatives }
\* Templates over one byte count and its derivatives.
UnitTemplates ==
    UNION { Templates({b} \cup { d[1] : d \in {x \in Derivatives : x[2] = b} }) :
            b \in ByteKeys }
InitUnits == InitWith(UnitTemplates)
SpecUnits == InitUnits /\ [][Next]_vars

\* The last read was of derivative d, in a cycle that had read its byte count.
ReadAfterBase(d) ==
    /\ lastRead.key = d[1]
    /\ lastRead.key \in DOMAIN cycle.seen
    /\ d[2] \in DOMAIN cycle.seen

\* C5 as stated: a derivative read after its byte count in the same cycle is
\* that byte count divided by 1024, 1024^2 or 1024^3.
C5_Original ==
    \A d \in Derivatives :
        ReadAfterBase(d) => lastRead.val = Num(cycle.seen[d[2]].n, 1, d[3])

\* C5, amended: a derivative read after its byte count in the same cycle is
\* that byte count divided by 1024, 1024^2 or 1024^3, whatever the OS reports
\* by then; except that when the OS reports no disk counters the disk byte
\* counts are -1 and so are their derivatives, unscaled.
C5_UnitsOfByteCount ==
    \A d \in Derivatives :
        ReadAfterBase(d) =>
            IF FamilyOf(d[2]) = "disk" /\ cycle.seen[d[2]] = IntV(-1)
            THEN lastRead.val = IntV(-1)
            ELSE lastRead.val = Num(cycle.seen[d[2]].n, 1, d[3])
\* A gigabyte figure read after the byte count, the OS counter having changed
\* in between.
C5_Witness ==
    /\ ReadAfterBase(<<"network_gb_recv", "network_bytes_recv", 3>>)
    /\ lastRead.moved
    /\ lastRead.val = Num(1, 1, 3)
    /\ os.net.bytes_recv = 0

(***************************************************************************)
(* Rates.                                                                  *)
(***************************************************************************)
RateKeys ==
    {"network_bytes_sent_per_sec", "network_bytes_recv_per_sec",
     "disk_io_read_bytes_per_sec", "disk_io_write_bytes_per_sec"}
\* <<per-second variant, bytes-per-second metric, power of 1024>>
PerSecVariants ==
    { <<"network_kb_sent_per_sec", "network_bytes_sent_per_sec", 1>>,
      <<"network_mb_sent_per_sec", "network_bytes_sent_per_sec", 2>>,
      <<"network_kb_recv_per_sec", "network_bytes_recv_per_sec", 1>>,
      <<"network_mb_recv_per_sec", "network_bytes_recv_per_sec", 2>>,
      <<"network_gb_recv_per_sec", "network_bytes_recv_per_sec", 3>>,
      <<"disk_io_read_kb_per_sec", "disk_io_read_bytes_per_sec", 1>>,
      <<"disk_io_read_mb_per_sec", "disk_io_read_bytes_per_sec", 2>>,
      <<"disk_io_read_gb_per_sec", "disk_io_read_bytes_per_sec", 3>>,
      <<"disk_io_write_kb_per_sec", "disk_io_write_bytes_per_sec", 1>>,
      <<"disk_io_write_mb_per_sec", "disk_io_write_bytes_per_sec", 2>>,
      <<"disk_io_write_gb_per_sec", "disk_io_write_bytes_per_sec", 3>> }
\* Templates over one rate and its per-second variants.
RateTemplates ==
    UNION { Templates({b} \cup { v[1] : v \in {x \in PerSecVariants : x[2] = b} }) :
            b \in RateKeys }
InitRates == InitWith(RateTemplates)
SpecRates == InitRates /\ [][Next]_vars

\* This step is a lookup fetcher[key].
ReadStep == pc = "format" /\ tick'.reads = tick.reads + 1
\* The counter the rate metric key works on: the cycle's cached one.
CounterOf(key, st) ==
    IF FamilyOf(key) = "net" THEN st.cache[NetKey][Catalog[key].field]
    ELSE st.cache[DiskKey][Catalog[key].field]
BaselineOf(key) == Catalog[key].attr

\* C3 as stated: the first read ever of a rate metric returns 0 and records
\* (now, counter); every later read, at a time t after the baseline's, returns
\* (c - c_last) / (t - t_last) and replaces the baseline by (t, c).  (Reads made
\* while the OS reports no disk counters are left aside.)
C3_Original ==
    [][(/\ ReadStep /\ lastRead'.key \in RateKeys
        /\ FamilyOf(lastRead'.key) = "disk" => fetcher'.cache[DiskKey].ok) =>
        LET k == lastRead'.key
            a == BaselineOf(k)
            c == CounterOf(k, fetcher')
        IN  /\ a \in DOMAIN fetcher'.last
            /\ IF a \notin DOMAIN fetcher.last
               THEN /\ lastRead'.val = IntV(0)
                    /\ fetcher'.last[a] = <<os.time, c>>
               ELSE os.time > fetcher.last[a][1] =>
                    /\ NumEq(lastRead'.val,
                             Num(c - fetcher.last[a][2], os.time - fetcher.last[a][1], 0))
                    /\ fetcher'.last[a] = <<os.time, c>>
      ]_vars

\* C3, amended: a read of a rate metric at time t, c being the cycle's counter,
\*  - of a disk rate already computed in this cycle returns that rate again and
\*    leaves the baseline;
\*  - of a disk rate while the OS reports no disk counters returns -1 and
\*    leaves the baseline (none is created);
\*  - otherwise, if it is the first ever, returns 0 and records (t, c);
\*  - otherwise, if t is the baseline's time, raises ZeroDivisionError and
\*    leaves the baseline;
\*  - otherwise returns (c - c_last) / (t - t_last) and replaces the baseline
\*    by (t, c).
C3_RateOfCounter ==
    [][(ReadStep /\ lastRead'.key \in RateKeys) =>
        LET k == lastRead'.key
            a == BaselineOf(k)
            c == CounterOf(k, fetcher')
            t == os.time
            disk == FamilyOf(k) = "disk"
        IN  IF disk /\ Catalog[k].rkey \in DOMAIN fetcher.cache
            THEN /\ lastRead'.val = fetcher.cache[Catalog[k].rkey]
                 /\ fetcher'.last = fetcher.last
            ELSE IF disk /\ ~fetcher'.cache[DiskKey].ok
            THEN /\ lastRead'.val = IntV(-1)
                 /\ fetcher'.last = fetcher.last
            ELSE IF a \notin DOMAIN fetcher.last
            THEN /\ lastRead'.val = IntV(0)
                 /\ fetcher'.last = Put(fetcher.last, a, <<t, c>>)
            ELSE IF t = fetcher.last[a][1]
            THEN /\ IsRaise(lastRead'.val)
                 /\ fetcher'.last = fetcher.last
            ELSE /\ lastRead'.val = Num(c - fetcher.last[a][2], t - fetcher.last[a][1], 0)
                 /\ fetcher'.last = Put(fetcher.last, a, <<t, c>>)
      ]_vars
\* A later read returned a counter delta of 1 over 2 time units and moved the
\* baseline to the time of the read.
C3_Witness ==
    /\ pc = "format"
    /\ lastRead.key = "network_bytes_recv_per_sec"
    /\ lastRead.val = Num(1, 2, 0)
    /\ fetcher.last[NetRecvLast] = <<2, 1>>

\* C4 as stated: a rate metric read a second time in one cycle returns the value
\* of the first read, and leaves the baseline as it was.  (Reads that raise are
\* left aside.)
C4_Original ==
    [][(/\ ReadStep /\ lastRead'.key \in RateKeys /\ lastRead'.key \in DOMAIN cycle.seen
        /\ IsNum(lastRead'.val)) =>
        /\ NumEq(lastRead'.val, cycle.seen[lastRead'.key])
        /\ fetcher'.last = fetcher.last
      ]_vars

\* C6 as stated: a per-second variant read right after its bytes-per-second
\* metric in the same cycle is the value just read divided by the unit, and the
\* baseline is left alone (or as one read of the base metric leaves it).  (Reads
\* that raise and reads of the -1 sentinel are left aside.)
C6_Original ==
    [][\A v \in PerSecVariants :
        ( /\ ReadStep
          /\ lastRead'.key = v[1] /\ IsNum(lastRead'.val)
          /\ lastRead.key = v[2] /\ v[2] \in DOMAIN cycle.seen
          /\ IsNum(lastRead.val) /\ lastRead.val # IntV(-1) ) =>
        /\ NumEq(lastRead'.val, Num(lastRead.val.n, lastRead.val.d, v[3]))
        /\ \/ fetcher'.last = fetcher.last
           \/ fetcher'.last =
                Put(fetcher.last, BaselineOf(v[2]), <<os.time, CounterOf(v[2], fetcher')>>)
      ]_vars

(***************************************************************************)
(* Lookup by name: unknown names, custom keys, privileged metrics.         *)
(***************************************************************************)
LookupKeys ==
    {"does_not_exist", "clear_cache", "uptime", "cpu_demanding_process",
     "cpu_demanding_process_cpu_percent"}
InitLookup == InitWith(Templates(LookupKeys))
SpecLookup == InitLookup /\ [][Next]_vars

\* C7 as stated: a lookup of a name that is neither in the metric catalog nor a
\* custom key returns "N/A" and logs exactly one warning, whatever attributes
\* the fetcher object has under that name.
C7_Original ==
    (lastRead.key # "" /\ lastRead.key \notin DOMAIN Catalog \cup custom_keys) =>
        /\ lastRead.val = StrV(NA)
        /\ lastRead.warn = 1

\* C8: without administrator rights a read of cpu_demanding_process returns
\* "N/A" and a read of cpu_demanding_process_cpu_percent returns not-a-number,
\* no process is enumerated and the fetcher (its cache included) is left as it
\* was; is_admin never changes after construction.
C8_AdminGate ==
    [][/\ fetcher'.is_admin = fetcher.is_admin
       /\ (/\ ReadStep /\ ~fetcher.is_admin
           /\ lastRead'.key \in {"cpu_demanding_process",
                                 "cpu_demanding_process_cpu_percent"}) =>
            /\ lastRead'.val = IF lastRead'.key = "cpu_demanding_process"
                               THEN StrV(NA) ELSE NaN
            /\ lastRead'.warn = 0
            /\ cycle'.q = cycle.q
            /\ fetcher' = fetcher
      ]_vars
\* Without administrator rights both process metrics were read in one cycle,
\* after the process list had changed, and nothing was enumerated.
C8_Witness ==
    /\ ~fetcher.is_admin
    /\ template = <<"cpu_demanding_process", "cpu_demanding_process_cpu_percent">>
    /\ tick.reads = 2
    /\ lastRead.val = NaN
    /\ cycle.seen["cpu_demanding_process"] = StrV(NA)
    /\ os.procs[2].cpu_percent > os.procs[1].cpu_percent
    /\ cycle.q[ProcKey] = 0 /\ fetcher.cache = Empty

\* C9 as stated: the command of a custom key runs at most once per cycle, and a
\* later read of the key in the cycle returns the text of the first.
C9_Original ==
    \A k \in custom_keys :
        /\ cycle.q[k] <= 1
        /\ (lastRead.key = k /\ k \in DOMAIN cycle.seen) => lastRead.val = cycle.seen[k]

(***************************************************************************)
(* The tick.                                                               *)
(***************************************************************************)
\* C10 as stated: every invocation of update_loop calls clear_cache() exactly
\* once, before the reads of the tick.
C10_Original ==
    /\ tick # NoTick => tick.clears = 1
    /\ tick.early = 0

\* C10, amended: an invocation of update_loop that finds no fullscreen
\* application calls clear_cache() exactly once, before every read of the tick
\* (the cache is empty when the first placeholder is substituted); one that
\* finds a fullscreen application neither calls clear_cache() nor reads a
\* metric; and no metric is read outside update_loop.
C10_ClearBeforeReads ==
    /\ tick.full => tick.clears = 0 /\ tick.reads = 0 /\ pc = "idle" /\ label = ""
    /\ (tick # NoTick /\ ~tick.full) => tick.clears = 1
    /\ tick.early = 0
    /\ (pc = "format" /\ tick.reads = 0) => fetcher.cache = Empty /\ cycle.q = NoQueries
    /\ hwnd_taskbar = 0 => tick = NoTick /\ lastRead.key = ""
\* A tick that cleared what the tick before it had cached, and then substituted
\* two placeholders.
C10_Witness ==
    /\ pc = "format" /\ ~tick.full
    /\ tick.clears = 1 /\ tick.reads = 2
    /\ "cpu_percent" \in DOMAIN cycle.old
    /\ fetcher.cache # Empty

(***************************************************************************)
(* The sparkline generator on its own.                                     *)
(***************************************************************************)
Samples == {0, 5, 10, 90}
\* Enough updates to overflow the largest buffer by five.
MaxUpdates == MaxLen + 5
\* The generators constructed: auto-scaling, or the fixed range the fetcher
\* gives its plotters.
InitPlot ==
    /\ Construct({<<"cpu_percent">>})
    /\ probe = NoProbe
    /\ \E n \in 1..MaxLen :
       \E b \in {<<Unset, Unset>>, <<Some(0), Some(100)>>} :
          plotter = [g |-> SparklineGenerator(PlotWidth, PlotHeight, n, b[1], b[2]),
                     log |-> <<>>, ret |-> None, cap |-> n]

UpdateAndGetB64 ==
    /\ Len(plotter.log) < MaxUpdates
    /\ \E v \in Samples :
       \E r \in {update_and_get_b64(plotter.g, v)} :
          plotter' = [plotter EXCEPT !.g = r.g, !.log = Append(@, v), !.ret = r.val]
    /\ UNCHANGED <<os, fetcher, hwnd_taskbar, timer, label, template, pc, cycle, tick,
                   lastRead, probe, shell, shot, win, ui, conf>>

NextPlot == UpdateAndGetB64
SpecPlot == InitPlot /\ [][NextPlot]_vars

\* C11: after k updates the history of a sparkline of capacity N has length N
\* and holds the last min(k, N) values appended, in order, after N - min(k, N)
\* zeros.
C11_RingBuffer ==
    LET N == plotter.cap
        k == Len(plotter.log)
        h == plotter.g.history
    IN  /\ Len(h) = N
        /\ \A i \in 1..N : h[i] = IF i + k <= N THEN 0 ELSE plotter.log[k - N + i]
\* A buffer of the largest capacity after N + 5 updates, the evicted first
\* value differing from what the buffer holds.
C11_Witness ==
    /\ plotter.cap = MaxLen
    /\ Len(plotter.log) = plotter.cap + 5
    /\ plotter.log[1] = 10
    /\ plotter.g.history[1] = 90
    /\ plotter.g.history[plotter.cap] = 5

\* C12: with auto-scaling of both bounds, an update never raises min_val nor
\* lowers max_val, and afterwards min_val <= every buffered value <= max_val.
C12_BoundsNeverShrink ==
    [][(plotter'.log # plotter.log /\ plotter.g.auto_min_val /\ plotter.g.auto_max_val) =>
        LET g == plotter.g
            n == plotter'.g
        IN  /\ n.min_val.some /\ n.max_val.some
            /\ g.min_val.some => n.min_val.v <= g.min_val.v
            /\ g.max_val.some => n.max_val.v >= g.max_val.v
            /\ \A i \in DOMAIN n.history :
                  n.min_val.v <= n.history[i] /\ n.history[i] <= n.max_val.v
      ]_vars
\* 10, 90, 5 appended to an auto-scaling sparkline of capacity 1: the buffer
\* holds 5 alone, and the bounds still span 5..90.
C12_Witness ==
    /\ plotter.g.auto_min_val /\ plotter.g.auto_max_val
    /\ plotter.log = <<10, 90, 5>>
    /\ plotter.g.history = <<5>>
    /\ plotter.g.min_val = Some(5) /\ plotter.g.max_val = Some(90)

\* A fraction <<n, d>> lies in 0..limit.
Within(f, limit) == f[2] > 0 /\ 0 <= f[1] /\ f[1] <= limit * f[2]
\* C13 as stated: every update maps every buffered value to a point with
\* 0 <= x <= width and 0 <= y <= height, values at or below min_val on the
\* bottom line and values at or above max_val on the top line, the first point
\* at x = 0 and (with two points or more) the last at x = width.
C13_Original ==
    plotter.log # <<>> =>
        /\ plotter.ret = DataUri
        /\ LET g == plotter.g
               pts == Points(g)
               n == Len(pts)
           IN  /\ n = plotter.cap
               /\ \A i \in 1..n :
                     /\ Within(pts[i].x, g.width) /\ Within(pts[i].y, g.height)
                     /\ g.history[i] <= g.min_val.v => pts[i].y = <<g.height, 1>>
                     /\ g.history[i] >= g.max_val.v => pts[i].y = <<0, 1>>
               /\ pts[1].x[1] = 0
               /\ n > 1 => pts[n].x[1] = g.width * pts[n].x[2]

(***************************************************************************)
(* The module-level functions and snap_position, called on their own.      *)
(***************************************************************************)
Layouts ==
    [hwnd : {0, TaskbarHwnd},
     tb : { Rect(l, t, 1920, h) : l \in {0, -1920}, t \in {0, 1040}, h \in {29, 40, 48} },
     tr : { [found |-> TRUE, ok |-> TRUE, left |-> 1600, width |-> t] : t \in {160, 161} },
     w : {100, 137}, m : {10}, dpr : Scales]

Call(fn, in) == [fn |-> fn, in |-> in, done |-> FALSE]
InitProbe ==
    /\ Construct({<<"cpu_percent">>})
    /\ plotter = NoPlotter
    /\ probe \in { Call("is_fullscreen_app_active", d) : d \in Desks }
               \cup { Call("get_tray_notify_width_physical", t) : t \in Trays }
               \cup { Call("get_tray_notify_width", t) : t \in Trays }
               \cup { Call("snap_position", l) : l \in Layouts }

Returns(out) ==
    /\ probe' = [fn |-> probe.fn, in |-> probe.in, done |-> TRUE, out |-> out]
    /\ UNCHANGED <<os, fetcher, hwnd_taskbar, timer, label, template, pc, cycle, tick,
                   lastRead, plotter, shell, shot, win, ui, conf>>
Pending(fn) == probe.fn = fn /\ ~probe.done

CallFullscreen ==
    /\ Pending("is_fullscreen_app_active")
    /\ Returns(is_fullscreen_app_active(probe.in))
CallTrayWidthPhysical ==
    /\ Pending("get_tray_notify_width_physical")
    /\ Returns(get_tray_notify_width_physical(probe.in))
CallTrayWidth ==
    /\ Pending("get_tray_notify_width")
    /\ Returns(get_tray_notify_width(probe.in))
\* out is the geometry given to move() and resize(), <<>> when neither is called.
CallSnapPosition ==
    /\ Pending("snap_position")
    /\ \E g \in LET i == probe.in
                    r == snap_position(i.hwnd, i.tb, i.tr, i.w, i.m, i.dpr)
                IN  IF r = {} THEN {<<>>} ELSE { <<o>> : o \in r } :
          Returns(g)

NextProbe == CallFullscreen \/ CallTrayWidthPhysical \/ CallTrayWidth \/ CallSnapPosition
SpecProbe == InitProbe /\ [][NextProbe]_vars
Returned(fn) == probe.fn = fn /\ probe.done

\* C14 as stated: the width function of the running widget returns 150 when
\* the tray window is not found, its rectangle cannot be read, or the measured
\* width is <= 0 or >= 3000, and the measured width otherwise.
C14_Original ==
    Returned("get_tray_notify_width_physical") =>
        LET t == probe.in
        IN  probe.out = IF ~t.found \/ ~t.ok \/ t.width <= 0 \/ t.width >= 3000
                        THEN 150 ELSE t.width

\* C15: is_fullscreen_app_active is true exactly when the taskbar is not
\* visible, or there is a foreground window whose class is not an excluded
\* shell class and whose rectangle is at least as wide and as high as the
\* screen.
C15_Fullscreen ==
    Returned("is_fullscreen_app_active") =>
        LET d == probe.in
        IN  probe.out <=> \/ ~d.visible
                          \/ /\ d.fg # 0
                             /\ d.cls \notin {"WorkerW", "Progman", "Shell_TrayWnd",
                                              "DV2ControlHost"}
                             /\ d.w >= ScreenW /\ d.h >= ScreenH
\* With the taskbar visible, a Progman foreground window of exactly the
\* screen's size was judged not fullscreen.
C15_Witness ==
    /\ Returned("is_fullscreen_app_active")
    /\ probe.in.visible /\ probe.in.fg # 0 /\ probe.in.cls = "Progman"
    /\ probe.in.w = ScreenW /\ probe.in.h = ScreenH
    /\ probe.out = FALSE

\* Truncation of n / d towards zero, d > 0.
Trunc(n, d) == IF n >= 0 THEN n \div d ELSE -((-n) \div d)
\* C20 as stated: with taskbar rectangle tb, tray width t, overlay width w,
\* margin m and scale s = sn/sd, the overlay gets height h = tb_h/s - 4 and is
\* moved to (X/s, Y/s), X = tb.right - t - w*s - m*s, Y = tb.top + (tb_h - h*s)/2.
\* In integers: h*sn = tb_h*sd - 4*sn, x*sn = (tb.right - t)*sd - (w + m)*sn,
\* y*sn = tb.top*sd + 2*sn.
C20_Original ==
    (Returned("snap_position") /\ probe.in.hwnd # 0) =>
        /\ Len(probe.out) = 1
        /\ LET i == probe.in
               g == probe.out[1]
               sn == i.dpr[1]
               sd == i.dpr[2]
               t == get_tray_notify_width_physical(i.tr)
           IN  /\ g.h * sn = (i.tb.bottom - i.tb.top) * sd - 4 * sn
               /\ g.x * sn = (i.tb.right - t) * sd - (i.w + i.m) * sn
               /\ g.y * sn = i.tb.top * sd + 2 * sn
               /\ g.w = i.w

\* C20, amended: without a taskbar handle nothing is moved.  Otherwise the
\* overlay is resized to (w, int(tb_h/s - 4)) and moved to (int(X/s), int(Y/s)),
\* int truncating towards zero; except that when Y/s is a whole number other
\* than 0 and tb_h/s has no finite binary expansion, the rounding of the
\* intermediate floats may leave the y coordinate one unit nearer to zero.
C20_SnapGeometry ==
    Returned("snap_position") =>
        IF probe.in.hwnd = 0 THEN probe.out = <<>>
        ELSE
        /\ Len(probe.out) = 1
        /\ LET i == probe.in
               g == probe.out[1]
               sn == i.dpr[1]
               sd == i.dpr[2]
               t == get_tray_notify_width_physical(i.tr)
               tb_h == i.tb.bottom - i.tb.top
               yn == i.tb.top * sd + 2 * sn
               inexact == \A k \in 0..12 : (tb_h * sd * 2^k) % sn # 0
           IN  /\ g.w = i.w
               /\ g.h = Trunc(tb_h * sd - 4 * sn, sn)
               /\ g.x = Trunc((i.tb.right - t) * sd - (i.w + i.m) * sn, sn)
               /\ \/ g.y = Trunc(yn, sn)
                  \/ /\ yn % sn = 0 /\ yn # 0 /\ inexact
                     /\ g.y = Trunc(yn, sn) - (IF yn > 0 THEN 1 ELSE -1)
\* The worked example: taskbar (0, 0, 1920, 40), tray width 160, overlay width
\* 100, margin 10, scale 1 give position (1650, 2) and height 36.
C20_Witness ==
    /\ Returned("snap_position")
    /\ probe.in = [hwnd |-> TaskbarHwnd, tb |-> Rect(0, 0, 1920, 40),
                   tr |-> [found |-> TRUE, ok |-> TRUE, left |-> 1600, width |-> 160],
                   w |-> 100, m |-> 10, dpr |-> <<1, 1>>]
    /\ probe.out = <<[x |-> 1650, y |-> 2, w |-> 100, h |-> 36]>>

(***************************************************************************)
(* The widget with its user and a shell that comes and goes.               *)
(***************************************************************************)
ShellTemplates == {<<"cpu_percent">>, <<"cpu_percent_plot">>}
\* What ObidomeSettings() can read from the settings file.
SettingsSamples ==
    { [margin_right |-> 10, refresh_interval_msec |-> 1000, info_label |-> <<"cpu_percent">>],
      [margin_right |-> 20, refresh_interval_msec |-> 500,
       info_label |-> <<"cpu_percent_plot">>] }

\* load_settings without the setInterval on the running timer.
LoadSettings_KeepsInterval(s) ==
    /\ template' = s.info_label
    /\ fetcher' = load_settings(fetcher)
    /\ conf' = [margin_right |-> s.margin_right,
                refresh_interval_msec |-> s.refresh_interval_msec,
                interval |-> conf.interval,
                due |-> conf.due]
\* TaskbarMonitor.load_settings
LoadSettings(s) ==
    /\ template' = s.info_label
    /\ fetcher' = load_settings(fetcher)
    /\ conf' = [margin_right |-> s.margin_right,
                refresh_interval_msec |-> s.refresh_interval_msec,
                interval |-> IF timer THEN s.refresh_interval_msec ELSE conf.interval,
                due |-> IF timer THEN FALSE ELSE conf.due]

\* contextMenuEvent up to menu.exec(): a right click on the overlay.  The
\* event loop menu.exec() runs keeps delivering the timers.  A modal dialog
\* keeps the click from the overlay.
ContextMenuEvent ==
    /\ pc = "idle" /\ ui.menu = "none" /\ ~ui.dialog
    /\ ui' = [ui EXCEPT !.should_stay = TRUE, !.menu = "open"]
    /\ UNCHANGED <<os, template, fetcher, hwnd_taskbar, timer, label, pc, cycle, tick,
                   lastRead, shell, shot, win, conf>>
    /\ UNCHANGED bench

\* open_settings up to dialog.exec(): "Settings" is chosen in the menu, which
\* closes; menu.exec() returns only after this slot has.
OpenSettings ==
    /\ pc = "idle" /\ ui.menu = "open"
    /\ ui' = [should_stay |-> TRUE, menu |-> "hidden", dialog |-> TRUE]
    /\ UNCHANGED <<os, template, fetcher, hwnd_taskbar, timer, label, pc, cycle, tick,
                   lastRead, shell, shot, win, conf>>
    /\ UNCHANGED bench

\* open_settings after dialog.exec(): the dialog is rejected, or accepted and
\* the settings are read again; ObidomeSettings() raises on a file it cannot
\* validate, and the slot ends there.
CloseSettings ==
    /\ pc = "idle" /\ ui.dialog
    /\ \/ /\ ui' = [ui EXCEPT !.dialog = FALSE, !.should_stay = FALSE]
          /\ UNCHANGED <<template, fetcher, conf>>
       \/ /\ \E s \in SettingsSamples : LoadSettings(s)
          /\ ui' = [ui EXCEPT !.dialog = FALSE, !.should_stay = FALSE]
       \/ /\ ui' = [ui EXCEPT !.dialog = FALSE]
          /\ UNCHANGED <<template, fetcher, conf>>
    /\ UNCHANGED <<os, hwnd_taskbar, timer, label, pc, cycle, tick, lastRead, shell, shot,
                   win>>
    /\ UNCHANGED bench

\* contextMenuEvent after menu.exec(): the menu was dismissed, or the slot of
\* the chosen action has returned.
MenuReturns ==
    /\ pc = "idle" /\ ui.menu # "none" /\ ~ui.dialog
    /\ ui' = [ui EXCEPT !.menu = "none", !.should_stay = FALSE]
    /\ UNCHANGED <<os, template, fetcher, hwnd_taskbar, timer, label, pc, cycle, tick,
                   lastRead, shell, shot, win, conf>>
    /\ UNCHANGED bench

\* The shell goes down and takes its taskbar window with it.
TaskbarDestroyed ==
    /\ shell.taskbar # 0
    /\ shell' = [shell EXCEPT !.taskbar = 0]
    /\ UNCHANGED <<os, template, fetcher, hwnd_taskbar, timer, label, pc, cycle, tick,
                   lastRead, shot, win, ui, conf>>
    /\ UNCHANGED bench

\* Icons come and go in the tray.
TrayWidths == {160, 200}
TrayResized ==
    /\ shell.taskbar # 0
    /\ \E w \in TrayWidths \ {shell.tray.width} :
          shell' = [shell EXCEPT !.tray.width = w, !.tray.left = 1760 - w]
    /\ UNCHANGED <<os, template, fetcher, hwnd_taskbar, timer, label, pc, cycle, tick,
                   lastRead, shot, win, ui, conf>>
    /\ UNCHANGED bench

\* Another window is put above the overlay.
Lowered ==
    /\ win.top
    /\ win' = [win EXCEPT !.top = FALSE]
    /\ UNCHANGED <<os, template, fetcher, hwnd_taskbar, timer, label, pc, cycle, tick,
                   lastRead, shell, shot, ui, conf>>
    /\ UNCHANGED bench

NextShell ==
    \/ Next
    \/ ContextMenuEvent
    \/ OpenSettings
    \/ CloseSettings
    \/ MenuReturns
    \/ TaskbarDestroyed
    \/ TrayResized
    \/ Lowered
InitShell == InitWith(ShellTemplates)
SpecShell == InitShell /\ [][NextShell]_vars

\* The single shot that calls start_monitor is a timer of the event loop, and
\* the event loop (the application's, or the one a menu or dialog runs)
\* delivers a due timer: start_monitor is not postponed for ever.
SpecAttach == InitShell /\ [][NextShell]_vars /\ WF_vars(StartMonitor)

\* C16: when start_monitor does not find the taskbar the widget stays
\* unattached with a retry pending after RetryDelay, for as long as the
\* taskbar is not found; so if the taskbar exists from some moment on, the
\* widget is eventually attached with its periodic timer running.
C16_RetryUntilAttached ==
    /\ [][(hwnd_taskbar = 0 /\ shell.taskbar = 0)
             => (hwnd_taskbar' = 0 /\ ~timer' /\ shot' \in {shot, RetryDelay})]_vars
    /\ [](hwnd_taskbar = 0 => shot \in {StartDelay, RetryDelay})
    /\ (<>[](shell.taskbar # 0)
          => <>(hwnd_taskbar # 0 /\ timer /\ conf.interval = conf.refresh_interval_msec))
\* A first attempt has failed, the retry is pending, and the taskbar exists by
\* now.
C16_Witness ==
    /\ hwnd_taskbar = 0 /\ shot = RetryDelay /\ ~timer
    /\ shell.taskbar # 0

\* C17: while the widget is unattached (no taskbar handle yet) no tick has
\* run: no metric was read and no OS query made, the cache, the rate
\* baselines and the sparkline generators are as constructed, the overlay was
\* never placed or raised, no periodic timer runs, and the content shown is
\* the placeholder "Loading...".
C17_NothingWhileUnattached ==
    hwnd_taskbar = 0 =>
        /\ pc = "idle" /\ ~timer /\ conf.interval = 0
        /\ tick = NoTick /\ cycle = NoCycle /\ lastRead.key = ""
        /\ fetcher.cache = Empty /\ fetcher.last = Empty /\ fetcher.plots = Empty
        /\ win = [geo |-> <<>>, top |-> FALSE]
        /\ label = "Loading..."
\* Still unattached after a failed attempt, while the CPU load has moved and
\* the settings were reloaded with another margin.
C17_Witness ==
    /\ hwnd_taskbar = 0 /\ shot = RetryDelay
    /\ os.cpu # 0 /\ conf.margin_right = 20
    /\ ui = [should_stay |-> FALSE, menu |-> "none", dialog |-> FALSE]

\* An update_loop that finds a fullscreen application: a step that leaves its
\* mark in tick or in the content shown.
FullscreenTick == tick'.full /\ (tick' # tick \/ label' # label)
\* C18: a tick on which is_fullscreen_app_active answers true empties the
\* content shown and changes nothing else: the overlay keeps its geometry and
\* its place in the z-order, nothing is read from the OS, and the cache, the
\* rate baselines and the sparkline generators are unchanged.
C18_FullscreenBlanksOnly ==
    [][FullscreenTick =>
          /\ label' = ""
          /\ pc' = "idle"
          /\ win' = win
          /\ fetcher' = fetcher
          /\ cycle' = cycle /\ lastRead' = lastRead /\ os' = os
          /\ tick'.reads = 0 /\ tick'.clears = 0 /\ ~tick'.snapped
          /\ UNCHANGED <<template, ui, shell>>]_vars
\* The content is blanked by a fullscreen tick; the overlay is still where the
\* tick before put it, for a tray 160 wide, although the tray is 200 wide by
\* now; the cache still holds what that tick read.
C18_Witness ==
    /\ tick.full /\ label = "" /\ pc = "idle"
    /\ win.geo = <<[x |-> 1650, y |-> 1042, w |-> 100, h |-> 36]>>
    /\ shell.tray.width = 200
    /\ fetcher.cache # Empty
    /\ CpuPlotter \in DOMAIN fetcher.plots

\* C19: while the context menu or the settings dialog is open _should_stay is
\* set, also for a dialog opened from the menu, and no step moves, resizes or
\* raises the overlay; ticks go on and show their content.
C19_HeldWhileOpen ==
    /\ []((ui.menu = "open" \/ ui.dialog) => ui.should_stay)
    /\ [][(ui.menu = "open" \/ ui.dialog)
             => /\ win'.geo = win.geo
                /\ (win'.top => win.top)
                /\ (tick' # tick => ~tick'.snapped)]_vars
\* With the menu open since before the first tick, a tick has shown its
\* content and the overlay has never been placed.
C19_Witness ==
    /\ ui.menu = "open" /\ ui.should_stay
    /\ pc = "idle" /\ label = "html"
    /\ tick.reads = Len(template) /\ tick.clears = 1 /\ ~tick.snapped
    /\ win.geo = <<>>

(***************************************************************************)
(* update_loop call by call: setText, raise_, move, resize are separate    *)
(* calls, each applied to the window when it is made; and the periodic     *)
(* timer can run out while a handler is busy.  UpdateLoopEnd is the four   *)
(* calls in one step.                                                      *)
(***************************************************************************)
\* The geometry show() gave the window before it was ever placed: where the
\* window manager put it, sized for the content.
Shown == [x |-> 0, y |-> 0, w |-> SizeHintWidth("Loading..."), h |-> 20]
GeoOf(wn) == IF wn.geo = <<>> THEN Shown ELSE wn.geo[1]
\* What snap_position computes from what the shell answers now.
Target ==
    snap_position(hwnd_taskbar, TaskbarRect, TrayOf, SizeHintWidth(label),
                  conf.margin_right, shell.dpr)

\* update_loop after the substitution: setText, and the test of _should_stay.
UpdateLoopShow ==
    /\ pc = "format" /\ tick.reads = Len(template)
    /\ label' = "html"
    /\ pc' = IF ui.should_stay THEN "idle" ELSE "raise_"
    /\ UNCHANGED <<os, template, fetcher, hwnd_taskbar, timer, cycle, tick, lastRead>>
    /\ UNCHANGED <<shell, shot, win, ui, conf>>
    /\ UNCHANGED bench

\* self.raise_()
RaiseOverlay ==
    /\ pc = "raise_"
    /\ win' = [win EXCEPT !.top = TRUE]
    /\ pc' = IF hwnd_taskbar = 0 THEN "idle" ELSE "move"
    /\ UNCHANGED <<os, template, fetcher, hwnd_taskbar, timer, label, cycle, tick,
                   lastRead>>
    /\ UNCHANGED <<shell, shot, ui, conf>>
    /\ UNCHANGED bench

\* snap_position up to self.move(target_log_x, target_log_y)
MoveOverlay ==
    /\ pc = "move"
    /\ \E o \in Target :
          win' = [win EXCEPT !.geo = <<[x |-> o.x, y |-> o.y, w |-> GeoOf(win).w,
                                       h |-> GeoOf(win).h]>>]
    /\ pc' = "resize"
    /\ UNCHANGED <<os, template, fetcher, hwnd_taskbar, timer, label, cycle, tick,
                   lastRead>>
    /\ UNCHANGED <<shell, shot, ui, conf>>
    /\ UNCHANGED bench

\* self.resize(my_log_w, int(my_log_h)): the size computed before the move;
\* it depends on the content, the height of the taskbar and the scale only.
ResizeOverlay ==
    /\ pc = "resize"
    /\ \E o \in Target :
          win' = [win EXCEPT !.geo = <<[x |-> GeoOf(win).x, y |-> GeoOf(win).y,
                                       w |-> o.w, h |-> o.h]>>]
    /\ pc' = "idle"
    /\ tick' = [tick EXCEPT !.snapped = TRUE]
    /\ UNCHANGED <<os, template, fetcher, hwnd_taskbar, timer, label, cycle, lastRead>>
    /\ UNCHANGED <<shell, shot, ui, conf>>
    /\ UNCHANGED bench

\* The interval of the periodic timer runs out; its timeout waits for the
\* event loop.
TimerElapses ==
    /\ timer /\ ~conf.due
    /\ conf' = [conf EXCEPT !.due = TRUE]
    /\ UNCHANGED <<os, template, fetcher, hwnd_taskbar, timer, label, pc, cycle, tick,
                   lastRead, shell, shot, win, ui>>
    /\ UNCHANGED bench

NextSteps ==
    \/ StartMonitor
    \/ TimerTick
    \/ ReadKey
    \/ UpdateLoopShow
    \/ RaiseOverlay
    \/ MoveOverlay
    \/ ResizeOverlay
    \/ OsChange
    \/ TaskbarCreated
    \/ TrayResized
    \/ TimerElapses
StepTemplates == Templates({"cpu_percent", "uptime"})
InitSteps == InitWith(StepTemplates)
SpecSteps == InitSteps /\ [][NextSteps]_vars

\* C21 as stated: the overlay is repositioned in one operation: every step
\* that moves, resizes or raises it leaves it the topmost window with exactly
\* the position and the size snap_position computes, never with a part of
\* them.
C21_Original ==
    [][(win'.geo # win.geo \/ (win'.top /\ ~win.top))
          => (win'.top /\ win'.geo \in { <<o>> : o \in Target' })]_vars

\* An update_loop is entered: tick starts afresh.
TickEntered == tick' # tick /\ tick'.reads = 0 /\ ~tick'.snapped
\* C22: update_loop is entered only when no update_loop is in progress, be it
\* the one start_monitor calls or one that runs a custom command; a timeout
\* that falls due meanwhile stays pending until the handler has returned.
C22_NoOverlap ==
    /\ [][TickEntered => pc = "idle"]_vars
    /\ [][(conf.due /\ pc # "idle") => (conf'.due /\ ~TickEntered)]_vars
\* The timer ran out while update_loop, past a custom command, was still
\* running: the timeout is pending.
C22_Witness ==
    /\ pc = "raise_" /\ conf.due
    /\ template = <<"uptime", "cpu_percent">> /\ tick.reads = 2
    /\ cycle.q["uptime"] = 1

(***************************************************************************)
(* Failures.                                                               *)
(***************************************************************************)
\* C23 as stated: no update_loop is ended by an exception: no lookup that
\* format_map makes raises, whatever the template, the environment and the
\* times at which the clock is read.
C23_Original == ~IsRaise(lastRead.val)


\* C24 as stated: an update of a sparkline that fails emits no image and
\* leaves the sparkline as it was before the update: the same history and the
\* same bounds.
C24_Original ==
    [][(plotter'.log # plotter.log /\ IsRaise(plotter'.ret)) =>
        /\ plotter'.g.history = plotter.g.history
        /\ plotter'.g.min_val = plotter.g.min_val
        /\ plotter'.g.max_val = plotter.g.max_val
      ]_vars

(***************************************************************************)
(* The histories the fetcher keeps                                        *)
(***************************************************************************)

\* The step is a lookup of a plot key whose generator is kept under attr.
PlotRead(attr) ==
    /\ pc = "format" /\ tick'.reads = tick.reads + 1
    /\ template[tick.reads + 1] \in DOMAIN Catalog
    /\ Catalog[template[tick.reads + 1]].attr = attr

AllRateKeys == RateKeys \cup { v[1] : v \in PerSecVariants }
Negative(x) == IsNum(x) /\ x.n * x.d < 0

\* The read of rate key k in this step repeats the rate the cycle has cached.
RepeatsCached(k) ==
    /\ FamilyOf(k) = "disk"
    /\ Catalog[k].rkey \in DOMAIN fetcher.cache
    /\ lastRead'.val = Div1024(fetcher.cache[Catalog[k].rkey], Catalog[k].k)
\* The read of rate key k in this step is made against a baseline the counter
\* has gone back from, and returns the negative quotient as it is.
WentBack(k) ==
    LET a == BaselineOf(k)
        c == CounterOf(k, fetcher')
    IN  /\ a \in DOMAIN fetcher.last
        /\ os.time > fetcher.last[a][1]
        /\ c < fetcher.last[a][2]
        /\ lastRead'.val = Num(c - fetcher.last[a][2], os.time - fetcher.last[a][1],
                               Catalog[k].k)
\* C26 as stated: a rate metric returns a negative value only when the counter
\* decreased between the baseline and the sample of the read (or when it
\* repeats such a value the cycle has cached), and then the value is the
\* uncorrected quotient.  (Reads made while the OS reports no disk counters
\* are left aside.)
C26_Original ==
    [][(/\ ReadStep /\ lastRead'.key \in AllRateKeys /\ Negative(lastRead'.val)
        /\ (FamilyOf(lastRead'.key) = "disk" /\ DiskKey \in DOMAIN fetcher'.cache)
              => fetcher'.cache[DiskKey].ok) =>
        (RepeatsCached(lastRead'.key) \/ WentBack(lastRead'.key))
      ]_vars

(***************************************************************************)
(* Settings read again                                                     *)
(***************************************************************************)

TaskbarLost == hwnd_taskbar # 0 /\ shell.taskbar # hwnd_taskbar

\* C28: once the taskbar has been found the stored handle never changes, no
\* call of start_monitor is pending or made again, the one timer keeps
\* running, and every tick that finds the taskbar lost only empties the
\* content: nothing is read, and the overlay, the cache, the baselines and the
\* sparklines stay as they are.
C28_AttachOnce ==
    /\ [][hwnd_taskbar # 0 => hwnd_taskbar' = hwnd_taskbar]_vars
    /\ [](hwnd_taskbar # 0 => (shot = 0 /\ timer))
    /\ [][(timer' /\ ~timer) => (hwnd_taskbar = 0 /\ hwnd_taskbar' # 0)]_vars
    /\ [][(TaskbarLost /\ tick' # tick /\ tick'.reads = 0) =>
           /\ tick'.full /\ label' = "" /\ pc' = "idle"
           /\ win' = win /\ fetcher' = fetcher /\ lastRead' = lastRead]_vars
\* The taskbar went away while a tick was reading, and that tick placed the
\* overlay by the rectangle of no window; the shell has come back since with
\* a taskbar of another handle, the widget still holds the old one, and a
\* later tick has emptied the content and left the overlay there.
C28_Witness ==
    /\ hwnd_taskbar = TaskbarHwnd /\ shell.taskbar = TaskbarHwnd + 1
    /\ timer /\ shot = 0 /\ pc = "idle"
    /\ tick.full /\ label = ""
    /\ win.geo # <<>> /\ win.geo[1].h < 0
    /\ lastRead.key = "cpu_percent_plot"

(***************************************************************************)
(* Rate baselines between reads                                            *)
(***************************************************************************)
\* The two network rates, a unit variant of one and its raw counter.
BaselineKeys ==
    {"network_bytes_sent_per_sec", "network_bytes_recv_per_sec",
     "network_kb_sent_per_sec", "network_bytes_sent"}
InitBaseline == InitWith(Templates(BaselineKeys))
SpecBaseline == InitBaseline /\ [][Next]_vars

\* C29: a baseline is created or replaced only by a read of its rate metric
\* or of a unit variant of it: no other step (the clear_cache of a tick, a
\* fullscreen tick, a read of another metric) changes it; so a read of the
\* rate at time t against a baseline (t0, c0) of an earlier time returns
\* (c - c0) / (t - t0), however many ticks have passed since t0.
C29_BaselineFrame ==
    /\ [][\A a \in DOMAIN fetcher.last \cup DOMAIN fetcher'.last :
            ( \/ a \notin DOMAIN fetcher.last
              \/ a \notin DOMAIN fetcher'.last
              \/ fetcher'.last[a] # fetcher.last[a] ) =>
            /\ ReadStep
            /\ lastRead'.key \in AllRateKeys
            /\ BaselineOf(lastRead'.key) = a]_vars
    /\ [][(/\ ReadStep /\ lastRead'.key \in RateKeys
            /\ FamilyOf(lastRead'.key) = "net"
            /\ BaselineOf(lastRead'.key) \in DOMAIN fetcher.last
            /\ os.time > fetcher.last[BaselineOf(lastRead'.key)][1]) =>
           LET k == lastRead'.key
               b == fetcher.last[BaselineOf(k)]
           IN  /\ lastRead'.val = Num(CounterOf(k, fetcher') - b[2], os.time - b[1], 0)
               /\ fetcher'.last[BaselineOf(k)] = <<os.time, CounterOf(k, fetcher')>>]_vars
\* A later tick has cleared the cache and read the received-bytes rate at
\* time 2; the baseline of the sent-bytes rate, read next, is still the one
\* of time 0 although the sent-bytes counter has moved.
C29_Witness ==
    /\ template = <<"network_bytes_recv_per_sec", "network_bytes_sent_per_sec">>
    /\ pc = "format" /\ tick.clears = 1 /\ tick.reads = 1
    /\ lastRead.key = "network_bytes_recv_per_sec"
    /\ {NetRecvLast, NetSentLast} \subseteq DOMAIN fetcher.last
    /\ fetcher.last[NetRecvLast][1] = 2
    /\ fetcher.last[NetSentLast] = <<0, 0>>
    /\ os.net.bytes_sent = 1

(***************************************************************************)
(* Where the overlay lies after snap_position                              *)
(***************************************************************************)

\* C30 as stated: after snap_position has moved the overlay, with an integer
\* scale s, the overlay with its right margin ends at or before the left edge
\* of the tray, and lies between the top and the bottom of the taskbar:
\* (x + w + m) * s <= tb.right - t, tb.top <= y * s, (y + h) * s <= tb.bottom.
C30_Original ==
    (Returned("snap_position") /\ probe.in.hwnd # 0 /\ probe.in.dpr[2] = 1) =>
        LET i == probe.in
            g == probe.out[1]
            s == i.dpr[1]
            t == get_tray_notify_width_physical(i.tr)
        IN  /\ (g.x + g.w + i.m) * s <= i.tb.right - t
            /\ i.tb.top <= g.y * s
            /\ (g.y + g.h) * s <= i.tb.bottom

(***************************************************************************)
(* Sparklines read from the template                                       *)
(***************************************************************************)
SparkKeys == {"cpu_percent_plot", "ram_percent_plot", "cpu_percent"}
InitSpark == InitWith(Templates(SparkKeys))
SpecSpark == InitSpark /\ [][Next]_vars

\* The history generator a has, or the zeros it starts from.
HistoryOf(st, a) ==
    IF a \in DOMAIN st.plots THEN st.plots[a].history ELSE [i \in 1..MaxLen |-> 0]
\* The value of the metric under generator a that the cycle has cached.
CachedFor(st, a) ==
    IF a = CpuPlotter THEN st.cache[CpuKey] ELSE st.cache[VmKey].percent
\* How many of the placeholders substituted so far in this tick read the
\* plot kept under a.
PlotReads(a) ==
    Cardinality({ i \in 1..tick.reads :
                    template[i] \in DOMAIN Catalog /\ Catalog[template[i]].attr = a })

\* C31: a read of a plot key shifts the cycle's cached value of its metric
\* into the history of its generator, once, and no other step changes a
\* history; so after k reads of the key in a tick the newest k entries of the
\* history are that one value, and a tick that has read it no times has left
\* the history as it was.
C31_OneSamplePerRead ==
    /\ [][\A a \in {CpuPlotter, RamPlotter} :
            IF PlotRead(a)
            THEN /\ a \in DOMAIN fetcher'.plots
                 /\ HistoryOf(fetcher', a) =
                      Push(HistoryOf(fetcher, a), CachedFor(fetcher', a))
            ELSE HistoryOf(fetcher', a) = HistoryOf(fetcher, a)]_vars
    /\ [](\A a \in {CpuPlotter, RamPlotter} :
            (tick.clears = 1 /\ PlotReads(a) > 0) =>
               \A i \in 1..MaxLen :
                  i > MaxLen - PlotReads(a) =>
                     HistoryOf(fetcher, a)[i] = CachedFor(fetcher, a))
\* The template names the CPU plot twice; the tick has substituted both, the
\* CPU load has moved since the first, and the history holds the cached load
\* twice.
C31_Witness ==
    /\ template = <<"cpu_percent_plot", "cpu_percent_plot">>
    /\ tick.clears = 1 /\ tick.reads = 2
    /\ CpuPlotter \in DOMAIN fetcher.plots
    /\ fetcher.plots[CpuPlotter].history = <<1, 1>>
    /\ os.cpu = 0
    /\ cycle.q[CpuKey] = 1

(***************************************************************************)
(* Disk metrics with and without disk counters                             *)
(***************************************************************************)

\* The OS has reported no disk counters in the cycle of this read.
NoCountersRead ==
    /\ ReadStep /\ FamilyOf(lastRead'.key) = "disk"
    /\ DiskKey \in DOMAIN fetcher'.cache /\ ~fetcher'.cache[DiskKey].ok
\* C32, first half: a disk metric read in a cycle without disk counters is
\* -1, unscaled, and the read leaves the rate baselines as they were.
C32_NoCounters ==
    [][NoCountersRead =>
          (lastRead'.val = IntV(-1) /\ fetcher'.last = fetcher.last)]_vars

\* C32 as stated: a disk metric read in a cycle without disk counters is -1,
\* unscaled, and leaves the rate baselines as they were; and a per-second
\* variant read in a cycle with disk counters is the cycle's base rate (0 in
\* the cycle that creates the baseline) divided by its unit.  (Reads that
\* raise are left aside.)
C32_Original ==
    [][(ReadStep /\ FamilyOf(lastRead'.key) = "disk"
          /\ DiskKey \in DOMAIN fetcher'.cache) =>
        LET k == lastRead'.key
            c == Catalog[k]
        IN  IF ~fetcher'.cache[DiskKey].ok
            THEN lastRead'.val = IntV(-1) /\ fetcher'.last = fetcher.last
            ELSE (c.kind = "DiskRateUnit" /\ IsNum(lastRead'.val)) =>
                    NumEq(lastRead'.val,
                          Div1024(IF c.rkey \in DOMAIN fetcher'.cache
                                  THEN fetcher'.cache[c.rkey] ELSE IntV(0), c.k))
      ]_vars

(***************************************************************************)
(* Custom keys named like a metric                                         *)
(***************************************************************************)

\* The commands run by this step: the custom keys whose count of executions
\* has gone up.
CommandsRun == { k \in custom_keys : cycle'.q[k] > cycle.q[k] }

C34_Original ==
    /\ []((ui.menu # "open" /\ ~ui.dialog) => ~ui.should_stay)
    /\ [][(ui.menu # "open" /\ ~ui.dialog /\ pc = "format" /\ pc' = "idle"
             /\ label' = "html") => tick'.snapped]_vars

====
